---- MODULE Spec2Model ----
(***************************************************************************)
(* Model of the convergence engine of cyclecloud-slurm:                    *)
(* SlurmCLI._wait_for_resume (src/slurm/src/slurmcc/cli.py, 556-722).       *)
(*                                                                         *)
(* One request is modelled: the requested node_list, the fleet manager's   *)
(* inventory, the wall clock, the loop's position and its locals, and a    *)
(* record of the scheduler commands every poll cycle runs.                 *)
(***************************************************************************)
EXTENDS Integers, Sequences, FiniteSets, TLC

(***************************************************************************)
(* Bounds of the model.                                                    *)
(***************************************************************************)
\* Number of node names a request can name.
MaxNodes == 2
\* Number of poll cycles that fit into the hour a request may take.
PollsPerTimeout == 3

(***************************************************************************)
(* Program constants.                                                      *)
(***************************************************************************)
\* omega = time.time() + 3600
ResumeTimeout == 3600
\* time.sleep(5)
SleepSecs == 5

\* Seconds one poll cycle takes besides its sleep (the fetch, the commands).
PollSecs == (ResumeTimeout \div PollsPerTimeout) - SleepSecs

NodeNames == 1..MaxNodes

\* Node.state, Node.target_state and Node.private_ip as the loop reads them;
\* private_ip 0 stands for None.
NodeStates == {"Acquiring", "Ready", "Failed"}
TargetStates == {"Started", "Terminated"}
PrivateIps == 0..1
NodeRecords == [state : NodeStates, target_state : TargetStates, private_ip : PrivateIps]

\* The inventory entries of the model: the loop reads private_ip only of a node
\* that is not Failed and has target Started, and of a node that is not Failed
\* and has another target it reads nothing more; those fields are fixed there.
Node == {v \in NodeRecords :
            /\ v.state = "Failed" => v.private_ip = 0
            /\ (v.state # "Failed" /\ v.target_state # "Started")
                  => (v.state = "Ready" /\ v.private_ip = 1)}

\* by_name.get(name) of a name that is not in the inventory.
NoNode == [state |-> "None", target_state |-> "None", private_ip |-> 0]

Range(s) == {s[i] : i \in DOMAIN s}

\* Every iteration order a Python set of the names S can have.
Perms(S) == {s \in [1..Cardinality(S) -> S] : Range(s) = S}

\* The requests: the first k names, in ascending and in descending order (the
\* loop treats names alike, so a list of distinct names is one of these renamed).
NodeLists == UNION {{[i \in 1..k |-> i], [i \in 1..k |-> k + 1 - i]} : k \in 0..MaxNodes}

\* str.lower() on the state names.
Lower(s) == IF s = "Failed" THEN "failed" ELSE IF s = "Ready" THEN "ready"
            ELSE IF s = "Acquiring" THEN "acquiring" ELSE s

\* The keys of the states dictionary; the nested states["UNKNOWN"] dictionary
\* is kept as the sum of its values, which is all the loop reads of it.
StateKeys == {"Failed", "UNKNOWN", "Ready", "WaitingOnIPAddress", "Acquiring"}

VARIABLES
    node_list,                  \* the requested names, in order
    by_name,                    \* the inventory of the last fetch: name -> Node or NoNode
    now,                        \* time.time(), in seconds since the request started
    pc,                         \* "poll" | "sleep" | "returned" | "raised"
    loop_exit,                  \* "none" | "break" | "deadline" | "fetch" | "command"
    polls,                      \* poll cycles completed
    failed_node_names,          \* the set kept across poll cycles
    ready_nodes,                \* loop locals of the last poll cycle
    relevant_nodes,
    newly_failed_node_names,
    recovered_node_names,
    states,
    down_cmds,                  \* names a State=down command was run for in the last cycle
    down_raised,                \* the name whose State=down command raised, or 0
    idle_cmds,                  \* names a State=idle command was run for in the last cycle
    idle_raised,                \* the name whose State=idle command raised, or 0
    addr_cmds,                  \* names of the NodeAddr updates run by the final step
    addr_raised,                \* the name whose NodeAddr update raised, or 0
    valid_hostnames,            \* ready names hpcutil.is_valid_hostname accepts in the final step
    down_issued,                \* name -> State=down commands run while it stayed Failed
    retry_down,                 \* newly failed node whose State=down raised last cycle
    retry_idle                  \* recovered node whose State=idle raised last cycle

vars == <<node_list, by_name, now, pc, loop_exit, polls, failed_node_names,
          ready_nodes, relevant_nodes, newly_failed_node_names,
          recovered_node_names, states, down_cmds, down_raised,
          idle_cmds, idle_raised, addr_cmds, addr_raised, valid_hostnames,
          down_issued, retry_down, retry_idle>>

(***************************************************************************)
(* The state of the entry points resume, suspend and resume_fail           *)
(* (SlurmCLI._resume and SlurmCLI._shutdown); it is at rest while          *)
(* _wait_for_resume is the subject.                                        *)
(***************************************************************************)
VARIABLES
    cli,                        \* the call: [op, node_list, no_wait]
    partitions,                 \* the partitions, in order: index -> names of all_nodes()
    inventory,                  \* names node_mgr.get_nodes() answers with
    cli_pc,                     \* "start" | "names" | "bootup" | "wait" | "returned" | "raised"
    cli_error,                  \* what the call raised, "none" when nothing
    name_to_partition,          \* _resume locals
    existing_nodes_by_name,
    name_index,                 \* position of `for name in node_list`
    nodes,                      \* the allocated nodes collected for bootup, by name
    boot_result,                \* operation_id of the bootup, 0 before it
    node_mgr_calls              \* the calls made so far, in order

entryVars == <<cli, partitions, inventory, cli_pc, cli_error, name_to_partition,
               existing_nodes_by_name, name_index, nodes, boot_result,
               node_mgr_calls>>

NoCall == [op |-> "none", node_list |-> <<>>, no_wait |-> FALSE]

EntryAtRest ==
    /\ cli = NoCall
    /\ partitions = <<>>
    /\ inventory = {}
    /\ cli_pc = "returned"
    /\ cli_error = "none"
    /\ name_to_partition = <<>>
    /\ existing_nodes_by_name = {}
    /\ name_index = 0
    /\ nodes = <<>>
    /\ boot_result = 0
    /\ node_mgr_calls = <<>>

(***************************************************************************)
(* The state of the retry executor (_retry_rest, _retry_subprocess).       *)
(***************************************************************************)
VARIABLES
    retry,                      \* the call: [func, attempts]
    retry_pc,                   \* "attempt" | "sleep" | "returned" | "raised"
    attempt,                    \* the loop variable of `for attempt in range(...)`
    last_exception,             \* message of the last failure, "None" before one
    outcomes,                   \* what each invocation of func did, in order
    sleeps,                     \* the arguments of time.sleep, in order
    retry_result                \* what the caller gets: the value or the error

retryVars == <<retry, retry_pc, attempt, last_exception, outcomes, sleeps,
               retry_result>>

NoResult == [kind |-> "none", what |-> "none"]

RetryAtRest ==
    /\ retry = [func |-> "none", attempts |-> 0]
    /\ retry_pc = "returned"
    /\ attempt = 0
    /\ last_exception = "None"
    /\ outcomes = <<>>
    /\ sleeps = <<>>
    /\ retry_result = NoResult

(***************************************************************************)
(* The state of keep_alive (SlurmCLI.keep_alive).                          *)
(***************************************************************************)
VARIABLES
    keep,                       \* the call: [node_list, remove, set_nodes]
    susp_exc_nodes,             \* the names of SuspendExcNodes in the scheduler's config
    keep_pc,                    \* "start" | "compute" | "write" | "reconfig" | "returned" | "raised"
    current_susp_nodes,         \* keep_alive locals
    hostnames,
    all_susp_hostnames,
    keep_alive_conf,            \* the names written to /sched/keep_alive.conf, or NotWritten
    scontrol_cmds               \* the scontrol commands run, in order

keepVars == <<keep, susp_exc_nodes, keep_pc, current_susp_nodes, hostnames,
              all_susp_hostnames, keep_alive_conf, scontrol_cmds>>

NotWritten == <<<<0, 0>>>>

KeepAtRest ==
    /\ keep = [node_list |-> <<>>, remove |-> FALSE, set_nodes |-> FALSE]
    /\ susp_exc_nodes = <<>>
    /\ keep_pc = "returned"
    /\ current_susp_nodes = <<>>
    /\ hostnames = <<>>
    /\ all_susp_hostnames = <<>>
    /\ keep_alive_conf = NotWritten
    /\ scontrol_cmds = <<>>

(***************************************************************************)
(* The state of the partition renderer (_partitions, SlurmCLI.partitions). *)
(***************************************************************************)
VARIABLES
    render,                     \* the call: [partitions, allow_empty, autoscale]
    render_index,               \* position of `for partition in partitions.values()`
    writer                      \* the lines written so far, in order

partVars == <<render, render_index, writer>>

PartAtRest ==
    /\ render = [partitions |-> <<>>, allow_empty |-> FALSE, autoscale |-> TRUE]
    /\ render_index = 0
    /\ writer = <<>>

(***************************************************************************)
(* The state of the GRES generator (_generate_gres_conf).                  *)
(***************************************************************************)
VARIABLES
    gres,                       \* the call: the partitions, in order
    gres_index,                 \* position of `for partition in partitions.values()`
    gres_pc,                    \* "loop" | "returned" | "raised"
    gres_writer                 \* the lines written so far, in order

gresVars == <<gres, gres_index, gres_pc, gres_writer>>

GresAtRest ==
    /\ gres = <<>>
    /\ gres_index = 0
    /\ gres_pc = "returned"
    /\ gres_writer = <<>>

(***************************************************************************)
(* The state of the topology generator (_generate_topology).               *)
(***************************************************************************)
VARIABLES
    topo,                       \* node_list_by_pg.items() of each partition, in order
    topo_pc,                    \* "start" | "returned" | "raised"
    topo_writer                 \* the lines written, in order

topoVars == <<topo, topo_pc, topo_writer>>

TopoAtRest ==
    /\ topo = <<>>
    /\ topo_pc = "returned"
    /\ topo_writer = <<>>

(***************************************************************************)
(* The state of SlurmDriver.preprocess_node_mgr.                           *)
(***************************************************************************)
VARIABLES
    prep,                       \* the call: [buckets, config], config as handed in
    config,                     \* the config dictionary, updated in place
    prep_pc,                    \* "start" | "buckets" | "returned"
    bucket_index,               \* position of `for b in node_mgr.get_buckets()`
    default_resources           \* names given to node_mgr.add_default_resource

prepVars == <<prep, config, prep_pc, bucket_index, default_resources>>

\* A config without the "nodearrays" key.
EmptyConfig == [has_nodearrays |-> FALSE, nodearrays |-> <<>>]

PrepAtRest ==
    /\ prep = [buckets |-> <<>>, config |-> EmptyConfig]
    /\ config = EmptyConfig
    /\ prep_pc = "returned"
    /\ bucket_index = 0
    /\ default_resources = <<>>

(***************************************************************************)
(* The state of is_autoscale_enabled.                                      *)
(***************************************************************************)
VARIABLES
    IS_AUTOSCALE_ENABLED,       \* the module global: "None" | "True" | "False"
    autoscale_queries,          \* what each read of the configuration got, in order
    autoscale_returns           \* what each call returned, in order

autoVars == <<IS_AUTOSCALE_ENABLED, autoscale_queries, autoscale_returns>>

AutoAtRest ==
    /\ IS_AUTOSCALE_ENABLED = "None"
    /\ autoscale_queries = <<>>
    /\ autoscale_returns = <<>>

(***************************************************************************)
(* The state of two keep_alive invocations that run at the same time.      *)
(***************************************************************************)
VARIABLES
    invocations,                \* per invocation: [node_list, pc, current_susp_nodes,
                                \*                  all_susp_hostlist]
    sched                       \* what they share: [susp_exc_nodes, tmp, conf, cmds]

pairVars == <<invocations, sched>>

\* A file that does not exist.
NoFile == <<<<0, 0>>>>

\* No invocation is running and nothing is shared.
PairAtRest ==
    /\ invocations = <<>>
    /\ sched = <<>>

(***************************************************************************)
(* The state of scale (SlurmCLI.scale).                                    *)
(***************************************************************************)
VARIABLES
    scale,                      \* the call and what it finds: [partitions, autoscale,
                                \*    azure_before, gres_before]
    scale_pc,                   \* "start" | "azure" | "move_azure" | "future" | "gres"
                                \*    | "move_gres" | "restart" | "returned" | "raised"
    scale_error,                \* what the call raised, "none" when nothing
    scale_files,                \* azure.conf, gres.conf, their .tmp files and backups
    systemctl_cmds              \* the systemctl commands run, in order

scaleVars == <<scale, scale_pc, scale_error, scale_files, systemctl_cmds>>

\* A file: whether it exists and the lines it holds.
Absent == [exists |-> FALSE, lines |-> <<>>]

File(lines) == [exists |-> TRUE, lines |-> lines]

NoFiles == [azure_conf |-> Absent, azure_tmp |-> Absent, backup_azure |-> Absent,
            gres_conf |-> Absent, gres_tmp |-> Absent, backup_gres |-> Absent]

\* There is no call and no file is looked at.
ScaleAtRest ==
    /\ scale = <<>>
    /\ scale_pc = "returned"
    /\ scale_error = "none"
    /\ scale_files = <<>>
    /\ systemctl_cmds = <<>>

(***************************************************************************)
(* The state of an install run (install.py: main and InstallSettings).     *)
(***************************************************************************)
VARIABLES
    bootstrap,                  \* the run: [keys, enabled, is_primary, mode, before]
    install_pc,                 \* "settings" | "config_dir" | "munge_key" | "installer"
                                \*    | "permissions" | "complete" | "accounting"
                                \*    | "returned" | "raised"
    install_error,              \* what the run raised, "none" when nothing
    settings,                   \* the InstallSettings constructed, NoSettings before
    config_dir,                 \* the paths that exist under {config_dir}
    created                     \* the paths under {config_dir} this run created

instVars == <<bootstrap, install_pc, install_error, settings, config_dir, created>>

NoSettings ==
    [mode |-> "", is_primary_scheduler |-> FALSE, acct_enabled |-> FALSE,
     acct_user |-> "<None>", acct_pass |-> "<None>", acct_url |-> "<None>",
     secondary_scheduler_name |-> "<None>"]

\* There is no run.
InstAtRest ==
    /\ bootstrap = <<>>
    /\ install_pc = "returned"
    /\ install_error = "none"
    /\ settings = <<>>
    /\ config_dir = {}
    /\ created = {}

\* The variables of the operations modelled after the generators.
laterVars == <<pairVars, scaleVars, instVars>>

LaterAtRest == PairAtRest /\ ScaleAtRest /\ InstAtRest

\* The variables of the configuration generators.
genVars == <<partVars, gresVars, topoVars, prepVars, autoVars>>

GenAtRest == PartAtRest /\ GresAtRest /\ TopoAtRest /\ PrepAtRest /\ AutoAtRest

confVars == <<genVars, laterVars>>

ConfAtRest == GenAtRest /\ LaterAtRest

\* What each generator leaves alone.
exceptPart == <<vars, entryVars, retryVars, keepVars, gresVars, topoVars, prepVars, autoVars, laterVars>>
exceptGres == <<vars, entryVars, retryVars, keepVars, partVars, topoVars, prepVars, autoVars, laterVars>>
exceptTopo == <<vars, entryVars, retryVars, keepVars, partVars, gresVars, prepVars, autoVars, laterVars>>
exceptPrep == <<vars, entryVars, retryVars, keepVars, partVars, gresVars, topoVars, autoVars, laterVars>>
exceptAuto == <<vars, entryVars, retryVars, keepVars, partVars, gresVars, topoVars, prepVars, laterVars>>

exceptPair == <<vars, entryVars, retryVars, keepVars, genVars, scaleVars, instVars>>
exceptScale == <<vars, entryVars, retryVars, keepVars, genVars, pairVars, instVars>>
exceptInst == <<vars, entryVars, retryVars, keepVars, genVars, pairVars, scaleVars>>

\* The variables of the operations other than _wait_for_resume.
otherVars == <<entryVars, retryVars, keepVars, confVars>>

OthersAtRest == EntryAtRest /\ RetryAtRest /\ KeepAtRest /\ ConfAtRest

\* omega, with the request starting at time 0.
omega == 0 + ResumeTimeout

(***************************************************************************)
(* The scan of the requested names (for name in node_list).                *)
(***************************************************************************)
NoStates == [k \in StateKeys |-> 0]

\* states[key] = states.get(key, 0) + 1
Incr(st, key) == [st EXCEPT ![key] = @ + 1]

\* if state and state.lower() == "failed"
IsFailedState(state) == Lower(state) = "failed"

\* Mutant of HasPrivateIp: the address check is left out.
HasPrivateIpAlways(node) == TRUE

\* if not node.private_ip (negated)
HasPrivateIp(node) == node.private_ip # 0

\* The locals at the start of a poll cycle; failed_node_names is carried over.
ScanStart(failed) ==
    [ready_nodes |-> <<>>,
     relevant_nodes |-> <<>>,
     newly_failed_node_names |-> <<>>,
     recovered_node_names |-> {},
     failed_node_names |-> failed,
     states |-> NoStates]

\* One iteration of the scan for `name`, whose inventory entry is `node`.
ScanStep(acc, name, node) ==
    IF node = NoNode
    THEN acc
    ELSE LET a1 == [acc EXCEPT !.relevant_nodes = Append(@, name)] IN
         IF IsFailedState(node.state)
         THEN [a1 EXCEPT
                 !.states = Incr(@, "Failed"),
                 !.newly_failed_node_names =
                     IF name \notin a1.failed_node_names THEN Append(@, name) ELSE @,
                 !.failed_node_names = @ \cup {name}]
         ELSE LET a2 == [a1 EXCEPT !.recovered_node_names =
                             IF name \in a1.failed_node_names THEN @ \cup {name} ELSE @]
              IN IF node.target_state # "Started"
                 THEN [a2 EXCEPT !.states = Incr(@, "UNKNOWN")]
                 ELSE IF node.state = "Ready"
                      THEN IF ~HasPrivateIp(node)
                           THEN [a2 EXCEPT !.states = Incr(@, "WaitingOnIPAddress")]
                           ELSE [a2 EXCEPT !.ready_nodes = Append(@, name),
                                           !.states = Incr(@, "Ready")]
                      ELSE [a2 EXCEPT !.states = Incr(@, node.state)]

RECURSIVE ScanNodes(_, _, _)
ScanNodes(names, fetched, acc) ==
    IF names = <<>>
    THEN acc
    ELSE ScanNodes(Tail(names), fetched, ScanStep(acc, Head(names), fetched[Head(names)]))

(***************************************************************************)
(* The two side-effect loops. A scheduler command either succeeds or       *)
(* raises (slutil.check_output); `order` is the iteration order of the set *)
(* the loop walks and failAt the position of the command that raises, 0    *)
(* when none does.                                                         *)
(***************************************************************************)
NoLoop == [cmds |-> {}, raised |-> 0, exc |-> "none"]

\* if newly_failed_node_names: for failed_name in failed_node_names: State=down
DownLoop(newly, order, failAt) ==
    IF newly = <<>>
    THEN NoLoop
    ELSE IF failAt = 0
         THEN [cmds |-> Range(order), raised |-> 0, exc |-> "none"]
         ELSE [cmds |-> {order[i] : i \in 1..failAt},
               raised |-> order[failAt],
               exc |-> "CommandError"]

\* failed_node_names.pop(recovered_name): failed_node_names is a set, and
\* set.pop() takes no argument, so the call raises TypeError and removes nothing.
SetPop(failed, name) == [failed |-> failed, exc |-> "TypeError"]

\* if recovered_node_names: for recovered_name in recovered_node_names:
\*     State=idle; if recovered_name in failed_node_names: failed_node_names.pop(..)
\* from position i of the iteration order on. The try encloses the whole loop, so
\* the first command or pop that raises ends it.
RECURSIVE IdleLoopFrom(_, _, _, _, _)
IdleLoopFrom(order, i, failAt, failed, cmds) ==
    IF i > Len(order)
    THEN [cmds |-> cmds, raised |-> 0, exc |-> "none", failed |-> failed]
    ELSE IF failAt = i
         THEN [cmds |-> cmds \cup {order[i]}, raised |-> order[i],
               exc |-> "CommandError", failed |-> failed]
         ELSE LET popped == IF order[i] \in failed
                            THEN SetPop(failed, order[i])
                            ELSE [failed |-> failed, exc |-> "none"]
              IN IF popped.exc # "none"
                 THEN [cmds |-> cmds \cup {order[i]}, raised |-> 0,
                       exc |-> popped.exc, failed |-> popped.failed]
                 ELSE IdleLoopFrom(order, i + 1, failAt, popped.failed,
                                   cmds \cup {order[i]})

IdleLoop(failed, order, failAt) == IdleLoopFrom(order, 1, failAt, failed, {})

\* Mutant of ExceptionCaught: the handlers catch TypeError only.
ExceptionCaughtTypeErrorOnly(exc) == exc = "TypeError"

\* except Exception: (lines 638 and 663) catches what the loops raise.
ExceptionCaught(exc) == exc \in {"CommandError", "TypeError"}

(***************************************************************************)
(* The exit check and the loop condition.                                  *)
(***************************************************************************)
\* Mutant of TerminalStates: the nodes with another target state are not counted.
TerminalStatesNoUnknown(st) == st["Ready"] + st["Failed"]

\* Mutant of TerminalStates: the Ready nodes are not counted.
TerminalStatesNoReady(st) == st["UNKNOWN"] + st["Failed"]

\* terminal_states = states.get("Ready") + sum(states["UNKNOWN"]) + states.get("Failed")
TerminalStates(st) == st["Ready"] + st["UNKNOWN"] + st["Failed"]

\* Mutant of LoopBreak: the count is compared with the whole request.
LoopBreakAllRequested(terminal, relevant, requested) == terminal = Len(requested)

\* if terminal_states == len(relevant_nodes): break
LoopBreak(terminal, relevant, requested) == terminal = Len(relevant)

\* Mutant of WhileCondition: the deadline itself still starts a cycle.
WhileConditionInclusive(t) == t <= omega

\* while time.time() < omega
WhileCondition(t) == t < omega

(***************************************************************************)
(* The final step: for node in ready_nodes, skip an invalid hostname, run  *)
(* the NodeAddr update. `valid` is what hpcutil.is_valid_hostname answers  *)
(* and failAt the position of the update that raises, 0 when none does.    *)
(***************************************************************************)
\* Mutant of AddrTargets: the hostname check is left out.
AddrTargetsAll(ready, valid) == ready

\* for node in ready_nodes: if not hpcutil.is_valid_hostname(config, node): continue
AddrTargets(ready, valid) == SelectSeq(ready, LAMBDA n : n \in valid)

FinalStep(ready, valid, failAt) ==
    LET targets == AddrTargets(ready, valid) IN
    IF failAt = 0
    THEN [cmds |-> targets, raised |-> 0]
    ELSE [cmds |-> SubSeq(targets, 1, failAt), raised |-> targets[failAt]]

Min(a, b) == IF a < b THEN a ELSE b

\* What a cycle whose command for `name` raised leaves to the next cycle.
NoRetry == [name |-> 0, node |-> NoNode]
Retry(name, fetched) == [name |-> name, node |-> fetched[name]]

(***************************************************************************)
(* The state after the locals of _wait_for_resume are set and the first    *)
(* while check has passed, for every request. What get_nodes() answers is  *)
(* an input of each poll cycle: any inventory of the requested names.      *)
(***************************************************************************)
Inventories(requested) ==
    {inv \in [NodeNames -> Node \cup {NoNode}] :
        \A n \in NodeNames \ Range(requested) : inv[n] = NoNode}

\* by_name before the fetch of a cycle (the previous cycle's value is not read).
NotFetched == [n \in NodeNames |-> NoNode]

Init ==
    /\ node_list \in NodeLists
    /\ by_name = NotFetched
    /\ now = 0
    /\ pc = "poll"
    /\ loop_exit = "none"
    /\ polls = 0
    /\ failed_node_names = {}
    /\ ready_nodes = <<>>
    /\ relevant_nodes = <<>>
    /\ newly_failed_node_names = <<>>
    /\ recovered_node_names = {}
    /\ states = NoStates
    /\ down_cmds = {}
    /\ down_raised = 0
    /\ idle_cmds = {}
    /\ idle_raised = 0
    /\ addr_cmds = <<>>
    /\ addr_raised = 0
    /\ valid_hostnames = {}
    /\ down_issued = [n \in NodeNames |-> 0]
    /\ retry_down = NoRetry
    /\ retry_idle = NoRetry
    /\ OthersAtRest

\* The final step after the loop, run on leaving it by `how`.
Finish(how, ready) ==
    \E valid \in SUBSET Range(ready) :
      \E failAt \in 0..Len(AddrTargets(ready, valid)) :
      \E final \in {FinalStep(ready, valid, failAt)} :
        /\ addr_cmds' = final.cmds
        /\ addr_raised' = final.raised
        /\ valid_hostnames' = valid
        /\ loop_exit' = how
        /\ pc' = IF final.raised = 0 THEN "returned" ELSE "raised"

\* One poll cycle whose inventory fetch succeeds: lines 572-699, and the final
\* step when the cycle breaks out of the loop.
PollCycle ==
    /\ pc = "poll"
    /\ UNCHANGED node_list
    /\ UNCHANGED otherVars
    /\ polls' = polls + 1
    /\ now' = now + PollSecs
    /\ \E fetched \in Inventories(node_list) :
       \E scan \in {ScanNodes(node_list, fetched, ScanStart(failed_node_names))} :
       \E down \in UNION {{DownLoop(scan.newly_failed_node_names, downOrder, downFail)
                               : downFail \in 0..Len(downOrder)}
                            : downOrder \in (IF scan.newly_failed_node_names = <<>>
                                             THEN {<<>>}
                                             ELSE Perms(scan.failed_node_names))} :
       \E downOut \in {down.exc # "none" /\ ~ExceptionCaught(down.exc)} :
       \E idle \in (IF downOut
                    THEN {[cmds |-> {}, raised |-> 0, exc |-> "none",
                           failed |-> scan.failed_node_names]}
                    ELSE UNION {{IdleLoop(scan.failed_node_names, idleOrder, idleFail)
                                   : idleFail \in 0..Len(idleOrder)}
                                : idleOrder \in Perms(scan.recovered_node_names)}) :
       \E idleOut \in {idle.exc # "none" /\ ~ExceptionCaught(idle.exc)} :
         /\ by_name' = fetched
         /\ ready_nodes' = scan.ready_nodes
         /\ relevant_nodes' = scan.relevant_nodes
         /\ newly_failed_node_names' = scan.newly_failed_node_names
         /\ recovered_node_names' = scan.recovered_node_names
         /\ states' = scan.states
         /\ failed_node_names' = idle.failed
         /\ down_cmds' = down.cmds
         /\ down_raised' = down.raised
         /\ idle_cmds' = idle.cmds
         /\ idle_raised' = idle.raised
         /\ down_issued' =
              [n \in NodeNames |->
                 IF fetched[n] # NoNode /\ IsFailedState(fetched[n].state)
                    /\ n \in Range(node_list)
                 THEN Min(2, down_issued[n] + (IF n \in down.cmds THEN 1 ELSE 0))
                 ELSE 0]
         /\ retry_down' = IF down.raised \in Range(scan.newly_failed_node_names)
                          THEN Retry(down.raised, fetched) ELSE NoRetry
         /\ retry_idle' = IF idle.raised # 0
                          THEN Retry(idle.raised, fetched) ELSE NoRetry
         /\ IF downOut \/ idleOut
            THEN /\ pc' = "raised"
                 /\ loop_exit' = "command"
                 /\ UNCHANGED <<addr_cmds, addr_raised, valid_hostnames>>
            ELSE IF LoopBreak(TerminalStates(scan.states), scan.relevant_nodes,
                              node_list)
                 THEN Finish("break", scan.ready_nodes)
                 ELSE /\ pc' = "sleep"
                      /\ UNCHANGED <<loop_exit, addr_cmds, addr_raised,
                                     valid_hostnames>>

\* Mutant of FetchFails: the error of the fetch is swallowed and the loop sleeps.
FetchFailsSwallowed ==
    /\ pc = "poll"
    /\ pc' = "sleep"
    /\ loop_exit' = "fetch"
    /\ now' = now + PollSecs
    /\ UNCHANGED <<node_list, by_name, polls, failed_node_names, ready_nodes,
                   relevant_nodes, newly_failed_node_names, recovered_node_names,
                   states, down_cmds, down_raised, idle_cmds, idle_raised,
                   addr_cmds, addr_raised, valid_hostnames, down_issued,
                   retry_down, retry_idle>>
    /\ UNCHANGED otherVars

\* A poll cycle whose inventory fetch fails on every attempt of _retry_rest:
\* the CyclecloudSlurmError leaves _wait_for_resume.
FetchFails ==
    /\ pc = "poll"
    /\ pc' = "raised"
    /\ loop_exit' = "fetch"
    /\ now' = now + PollSecs
    /\ UNCHANGED <<node_list, by_name, polls, failed_node_names, ready_nodes,
                   relevant_nodes, newly_failed_node_names, recovered_node_names,
                   states, down_cmds, down_raised, idle_cmds, idle_raised,
                   addr_cmds, addr_raised, valid_hostnames, down_issued,
                   retry_down, retry_idle>>
    /\ UNCHANGED otherVars

\* time.sleep(5), then the while check: either the next cycle starts, with its
\* locals reset (lines 572-586), or the deadline has passed and the final step runs.
Sleep ==
    /\ pc = "sleep"
    /\ UNCHANGED <<node_list, polls, failed_node_names, down_issued,
                   retry_down, retry_idle>>
    /\ UNCHANGED otherVars
    /\ now' = now + SleepSecs
    /\ IF WhileCondition(now')
       THEN /\ pc' = "poll"
            /\ by_name' = NotFetched
            /\ ready_nodes' = <<>>
            /\ relevant_nodes' = <<>>
            /\ newly_failed_node_names' = <<>>
            /\ recovered_node_names' = {}
            /\ states' = NoStates
            /\ down_cmds' = {}
            /\ down_raised' = 0
            /\ idle_cmds' = {}
            /\ idle_raised' = 0
            /\ UNCHANGED <<loop_exit, addr_cmds, addr_raised, valid_hostnames>>
       ELSE /\ Finish("deadline", ready_nodes)
            /\ UNCHANGED <<by_name, ready_nodes, relevant_nodes,
                           newly_failed_node_names, recovered_node_names, states,
                           down_cmds, down_raised, idle_cmds, idle_raised>>

Next == PollCycle \/ FetchFails \/ Sleep

Spec == Init /\ [][Next]_vars

\* The loop is one thread that always runs on: a poll that can start starts,
\* and a sleep ends.
FairSpec == Spec /\ WF_vars(PollCycle \/ FetchFails) /\ WF_vars(Sleep)

(***************************************************************************)
(* The entry points resume, suspend and resume_fail: SlurmCLI._resume      *)
(* (lines 225-270) and SlurmCLI._shutdown (lines 284-299). The node        *)
(* manager is outside this code: what is modelled of it is the calls made  *)
(* to it, in order, and what they answer.                                  *)
(***************************************************************************)
\* Number of partitions.
MaxPartitions == 2
\* Number of operation ids a bootup can answer with.
MaxOperationId == 2

PartitionIds == 1..MaxPartitions
OperationIds == 1..MaxOperationId

\* The node lists of a call: any names, repeated or not, up to MaxNodes of them.
Requests == UNION {[1..k -> NodeNames] : k \in 0..MaxNodes}

\* _wait_for_resume is at rest while an entry point is the subject.
WaitAtRest ==
    /\ node_list = <<>>
    /\ by_name = NotFetched
    /\ now = 0
    /\ pc = "returned"
    /\ loop_exit = "none"
    /\ polls = 0
    /\ failed_node_names = {}
    /\ ready_nodes = <<>>
    /\ relevant_nodes = <<>>
    /\ newly_failed_node_names = <<>>
    /\ recovered_node_names = {}
    /\ states = NoStates
    /\ down_cmds = {}
    /\ down_raised = 0
    /\ idle_cmds = {}
    /\ idle_raised = 0
    /\ addr_cmds = <<>>
    /\ addr_raised = 0
    /\ valid_hostnames = {}
    /\ down_issued = [n \in NodeNames |-> 0]
    /\ retry_down = NoRetry
    /\ retry_idle = NoRetry

\* A call made to the node manager or to _wait_for_resume.
Call(call, names, bucket, node_count, operation_id) ==
    [call |-> call, names |-> names, bucket |-> bucket,
     node_count |-> node_count, operation_id |-> operation_id]

\* for partition in partitions.values(): for name in partition.all_nodes():
\*     name_to_partition[name] = partition
\* from partition i on; 0 stands for a name that is no key of the dictionary.
RECURSIVE NameToPartitionFrom(_, _, _)
NameToPartitionFrom(ps, i, acc) ==
    IF i > Len(ps)
    THEN acc
    ELSE NameToPartitionFrom(ps, i + 1,
            [n \in NodeNames |-> IF n \in ps[i] THEN i ELSE acc[n]])

NameToPartition(ps) == NameToPartitionFrom(ps, 1, [n \in NodeNames |-> 0])

\* Mutant of AlreadyExists: no name is taken to exist.
AlreadyExistsNever(name, existing) == FALSE

\* if name in existing_nodes_by_name
AlreadyExists(name, existing) == name \in existing

\* Mutant of UnknownName: every name is taken to have a partition.
UnknownNameNever(name, n2p) == FALSE

\* if name not in name_to_partition
UnknownName(name, n2p) == n2p[name] = 0

\* partition.bucket_for_node(name).bucket_id: the bucket of partition p.
BucketId(p, name) == p

\* name_hook(bucket, index): the name of the node allocated at `index`.
NameHook(name, index) == IF index # 1 THEN "RuntimeError" ELSE name

\* The node an allocation of one node answers with, after line 265.
AllocatedNode(name, bucket) ==
    [name |-> NameHook(name, 1), name_format |-> name, bucket |-> bucket]

\* Mutant of WaitWanted: the poll loop is run whatever no_wait is.
WaitWantedAlways(no_wait) == TRUE

\* if not no_wait
WaitWanted(no_wait) == ~no_wait

\* Mutant of ShutdownNodes: a repeated name is passed once.
ShutdownNodesOnce(names) ==
    SelectSeq([i \in DOMAIN names |->
                 IF \E j \in 1..(i - 1) : names[j] = names[i] THEN 0 ELSE names[i]],
              LAMBDA n : n # 0)

\* nodes = []; for n in node_list: nodes.append(EasyNode(n))
ShutdownNodes(names) == [i \in DOMAIN names |-> names[i]]

EntryInit ==
    /\ WaitAtRest
    /\ RetryAtRest
    /\ KeepAtRest
    /\ ConfAtRest
    /\ cli \in [op : {"resume", "suspend", "resume_fail"},
                 node_list : Requests, no_wait : BOOLEAN]
    /\ partitions \in [PartitionIds -> SUBSET NodeNames]
    /\ inventory \in SUBSET NodeNames
    /\ cli_pc = "start"
    /\ cli_error = "none"
    /\ name_to_partition = <<>>
    /\ existing_nodes_by_name = {}
    /\ name_index = 0
    /\ nodes = <<>>
    /\ boot_result = 0
    /\ node_mgr_calls = <<>>

\* Where _resume goes after the name at position i - 1: the next name or bootup.
AfterName(i) == IF i > Len(cli.node_list) THEN "bootup" ELSE "names"

\* Lines 233-241: the dictionary of the partitions and the inventory read.
ResumeStart ==
    /\ cli_pc = "start"
    /\ cli.op = "resume"
    /\ name_to_partition' = NameToPartition(partitions)
    /\ existing_nodes_by_name' = inventory
    /\ node_mgr_calls' = Append(node_mgr_calls, Call("get_nodes", <<>>, 0, 0, 0))
    /\ nodes' = <<>>
    /\ name_index' = 1
    /\ cli_pc' = AfterName(1)
    /\ UNCHANGED <<cli, partitions, inventory, cli_error, boot_result>>
    /\ UNCHANGED <<vars, retryVars, keepVars, confVars>>

\* Lines 242-266: one iteration of `for name in node_list`. node_mgr.allocate
\* answers with `got` nodes.
ResumeName ==
    /\ cli_pc = "names"
    /\ LET name == cli.node_list[name_index] IN
       IF AlreadyExists(name, existing_nodes_by_name)
       THEN /\ name_index' = name_index + 1
            /\ cli_pc' = AfterName(name_index + 1)
            /\ UNCHANGED <<nodes, node_mgr_calls, cli_error>>
       ELSE IF UnknownName(name, name_to_partition)
            THEN /\ cli_pc' = "raised"
                 /\ cli_error' = "UnknownNodeName"
                 /\ UNCHANGED <<nodes, node_mgr_calls, name_index>>
            ELSE \E got \in 0..1 :
                   LET bucket == BucketId(name_to_partition[name], name) IN
                   /\ node_mgr_calls' =
                        Append(node_mgr_calls, Call("allocate", <<name>>, bucket, 1, 0))
                   /\ IF got # 1
                      THEN /\ cli_pc' = "raised"
                           /\ cli_error' = "RuntimeError"
                           /\ UNCHANGED <<nodes, name_index>>
                      ELSE /\ nodes' = Append(nodes, AllocatedNode(name, bucket))
                           /\ name_index' = name_index + 1
                           /\ cli_pc' = AfterName(name_index + 1)
                           /\ UNCHANGED cli_error
    /\ UNCHANGED <<cli, partitions, inventory, name_to_partition,
                   existing_nodes_by_name, boot_result>>
    /\ UNCHANGED <<vars, retryVars, keepVars, confVars>>

\* Line 267: boot_result = node_mgr.bootup(nodes), which answers with an
\* operation id or raises.
Bootup ==
    /\ cli_pc = "bootup"
    /\ \E answer \in OperationIds \cup {0} :
         /\ node_mgr_calls' =
              Append(node_mgr_calls,
                     Call("bootup", [i \in DOMAIN nodes |-> nodes[i].name], 0, 0, answer))
         /\ IF answer = 0
            THEN /\ cli_pc' = "raised"
                 /\ cli_error' = "BootupError"
                 /\ UNCHANGED boot_result
            ELSE /\ cli_pc' = "wait"
                 /\ boot_result' = answer
                 /\ UNCHANGED cli_error
    /\ UNCHANGED <<cli, partitions, inventory, name_to_partition,
                   existing_nodes_by_name, name_index, nodes>>
    /\ UNCHANGED <<vars, retryVars, keepVars, confVars>>

\* Lines 269-270: the poll loop over the whole node_list, unless no_wait.
WaitForResume ==
    /\ cli_pc = "wait"
    /\ node_mgr_calls' =
         IF WaitWanted(cli.no_wait)
         THEN Append(node_mgr_calls,
                     Call("_wait_for_resume", cli.node_list, 0, 0, boot_result))
         ELSE node_mgr_calls
    /\ cli_pc' = "returned"
    /\ UNCHANGED <<cli, partitions, inventory, cli_error, name_to_partition,
                   existing_nodes_by_name, name_index, nodes, boot_result>>
    /\ UNCHANGED <<vars, retryVars, keepVars, confVars>>

\* suspend and resume_fail: _shutdown, lines 295-299. node_mgr.shutdown_nodes
\* answers or raises.
Shutdown ==
    /\ cli_pc = "start"
    /\ cli.op \in {"suspend", "resume_fail"}
    /\ node_mgr_calls' =
         Append(node_mgr_calls,
                Call("shutdown_nodes", ShutdownNodes(cli.node_list), 0, 0, 0))
    /\ \E ok \in BOOLEAN :
         /\ cli_pc' = IF ok THEN "returned" ELSE "raised"
         /\ cli_error' = IF ok THEN "none" ELSE "ShutdownError"
    /\ UNCHANGED <<cli, partitions, inventory, name_to_partition,
                   existing_nodes_by_name, name_index, nodes, boot_result>>
    /\ UNCHANGED <<vars, retryVars, keepVars, confVars>>

EntryNext == ResumeStart \/ ResumeName \/ Bootup \/ WaitForResume \/ Shutdown

EntrySpec == EntryInit /\ [][EntryNext]_<<vars, otherVars>>

(***************************************************************************)
(* What the properties below are stated in: the requested nodes as the     *)
(* inventory fetched by the last poll cycle holds them.                    *)
(***************************************************************************)
Requested == Range(node_list)
Found(n) == by_name[n] # NoNode
FoundNames == {n \in Requested : Found(n)}
IsFailed(n) == Found(n) /\ by_name[n].state = "Failed"
IsReady(n) ==
    /\ Found(n)
    /\ by_name[n].state = "Ready"
    /\ by_name[n].target_state = "Started"
    /\ by_name[n].private_ip # 0
IsPending(n) ==
    /\ Found(n)
    /\ ~IsFailed(n)
    /\ by_name[n].target_state = "Started"
    /\ ~IsReady(n)

\* The loop locals are those of a completed poll cycle.
Polled == polls > 0 /\ pc # "poll" /\ loop_exit # "fetch"

\* A step that is a poll cycle with a successful fetch.
PollStep == pc = "poll" /\ polls' = polls + 1

\* C1 (as claimed): a poll cycle ends the loop exactly when, among the requested
\* nodes found, #Ready + #Failed + #(target state not Started) = #found; a found
\* node with target Started that is neither Failed nor Ready keeps it polling.
C1_ExitIffCountsAsClaimed ==
    Polled =>
      /\ (loop_exit = "break") <=>
            (Cardinality({n \in FoundNames : IsReady(n)})
               + Cardinality({n \in FoundNames : IsFailed(n)})
               + Cardinality({n \in FoundNames : by_name[n].target_state # "Started"})
             = Cardinality(FoundNames))
      /\ (\E n \in FoundNames : IsPending(n)) => loop_exit # "break"

\* C1 (amended): the same, with the third count taken over the nodes that are
\* not Failed: a Failed node counts once, whatever its target state.
C1_ExitIffCounts ==
    Polled =>
      /\ (loop_exit = "break") <=>
            (Cardinality({n \in FoundNames : IsReady(n)})
               + Cardinality({n \in FoundNames : IsFailed(n)})
               + Cardinality({n \in FoundNames :
                     ~IsFailed(n) /\ by_name[n].target_state # "Started"})
             = Cardinality(FoundNames))
      /\ (\E n \in FoundNames : IsPending(n)) => loop_exit # "break"

\* C1 witness: a poll cycle after the first ends the loop with a Failed node
\* whose target is not Started beside a Ready one.
C1_Witness ==
    /\ Polled
    /\ polls > 1
    /\ loop_exit = "break"
    /\ \E n \in FoundNames : IsFailed(n) /\ by_name[n].target_state # "Started"
    /\ \E n \in FoundNames : IsReady(n)

\* C2: the ready list of a poll cycle is the requested list restricted to the
\* nodes that are found, not Failed, have target Started, state Ready and a
\* private IP, in the order of the requested list.
C2_ReadyList ==
    Polled => ready_nodes = SelectSeq(node_list, IsReady)

\* C2 witness: a name of the failed set is back in a ready list of two nodes,
\* requested in descending order.
C2_Witness ==
    /\ Polled
    /\ Len(ready_nodes) = 2
    /\ ready_nodes[1] > ready_nodes[2]
    /\ \E n \in Range(ready_nodes) : n \in failed_node_names

\* C3 (as claimed): every requested node a poll cycle observes Failed and whose
\* name is not in failed_node_names is added to it and gets a State=down command
\* in that cycle.
C3_NewlyFailedMarkedDown ==
    [][PollStep =>
         \A n \in Requested :
            (IsFailed(n)' /\ n \notin failed_node_names)
               => (n \in failed_node_names' /\ n \in down_cmds')]_vars

\* C4 (as claimed): every requested node that is in failed_node_names and is
\* observed not Failed gets a State=idle command in that cycle; stated for the
\* cycles in which no scheduler command raises.
C4_RecoveredMarkedIdle ==
    [][(PollStep /\ down_raised' = 0 /\ idle_raised' = 0) =>
         \A n \in Requested :
            (n \in failed_node_names /\ Found(n)' /\ ~IsFailed(n)')
               => n \in idle_cmds']_vars

\* C5 (as claimed): once the State=idle command of a recovered node has
\* succeeded, its name is no longer in failed_node_names.
C5_RecoveredNameRemoved ==
    Polled => \A n \in idle_cmds : n # idle_raised => n \notin failed_node_names

\* C6 (as claimed): while a node stays Failed over consecutive polls, at most
\* one State=down command is run for it.
C6_DownAtMostOnce ==
    \A n \in NodeNames : down_issued[n] <= 1

\* C7: a State=down or State=idle command that raises does not leave
\* _wait_for_resume: the cycle reaches its exit check, breaks when converged
\* and otherwise sleeps (and is then only ended by the deadline).
C7_CommandFailureNotFatal ==
    (polls > 0 /\ (down_raised # 0 \/ idle_raised # 0)) =>
      /\ loop_exit \in {"none", "break", "deadline"}
      /\ pc = "raised" => addr_raised # 0
      /\ (\A n \in FoundNames : ~IsPending(n)) => loop_exit = "break"
      /\ (\E n \in FoundNames : IsPending(n)) =>
            (pc = "sleep" \/ loop_exit = "deadline")

\* C7 witness: both a State=down and a State=idle command raised in a cycle,
\* and the loop sleeps on.
C7_Witness ==
    /\ Polled
    /\ down_raised # 0
    /\ idle_raised # 0
    /\ pc = "sleep"

\* C8 (as claimed): a State=down (State=idle) command that raised for a newly
\* failed (recovered) node is run again in the next poll cycle when the node's
\* inventory entry is unchanged.
C8_FailedCommandRetried ==
    [][PollStep =>
         /\ (retry_down # NoRetry /\ by_name'[retry_down.name] = retry_down.node)
               => retry_down.name \in down_cmds'
         /\ (retry_idle # NoRetry /\ by_name'[retry_idle.name] = retry_idle.node)
               => retry_idle.name \in idle_cmds']_vars

C9_Terminates == <>(pc \in {"returned", "raised"})

C10_MissingExcluded ==
    Polled =>
      /\ (loop_exit = "break") <=> (\A n \in FoundNames : ~IsPending(n))
      /\ FoundNames = {} =>
            (ready_nodes = <<>> /\ addr_cmds = <<>> /\ pc = "returned")
      /\ (polls = 1 /\ FoundNames = {}) => loop_exit = "break"

\* C10 witness: every name of a full request is missing and the first poll
\* cycle ends the loop.
C10_Witness ==
    /\ Polled
    /\ polls = 1
    /\ Len(node_list) = MaxNodes
    /\ FoundNames = {}
    /\ loop_exit = "break"
    /\ pc = "returned"

\* The function has left its loop and run its final step.
LoopLeft == loop_exit \in {"break", "deadline"}

\* The address updates the final step is to run: the ready list of the last
\* completed poll cycle restricted to the valid hostnames.
AddrDue == SelectSeq(ready_nodes, LAMBDA n : n \in valid_hostnames)

C12_AllReadyFirstCycle ==
    /\ [](( /\ polls = 1
            /\ loop_exit # "fetch"
            /\ \A n \in Requested : IsReady(n) )
          => ( /\ loop_exit = "break"
               /\ pc \in {"returned", "raised"}
               /\ now < SleepSecs + PollSecs
               /\ ready_nodes = node_list ))
    /\ [][loop_exit # "break"]_vars

\* C12 witness: a full request, all ready at the first poll, has returned after
\* one poll cycle.
C12_Witness ==
    /\ polls = 1
    /\ Len(node_list) = MaxNodes
    /\ \A n \in Requested : IsReady(n)
    /\ loop_exit = "break"
    /\ pc = "returned"

\* C13: an inventory fetch that fails on every attempt makes the function raise,
\* with no scheduler command run in that cycle and no step taken after it.
C13_FetchFailureRaises ==
    /\ [](loop_exit = "fetch" =>
            /\ pc = "raised"
            /\ down_cmds = {} /\ idle_cmds = {}
            /\ addr_cmds = <<>> /\ addr_raised = 0)
    /\ [][loop_exit # "fetch"]_vars

\* C13 witness: the fetch of a later cycle fails with a name in the failed
\* set, and the function has raised.
C13_Witness ==
    /\ loop_exit = "fetch"
    /\ pc = "raised"
    /\ polls > 0
    /\ failed_node_names # {}

(***************************************************************************)
(* The entry points: what their properties are stated in.                  *)
(***************************************************************************)
CallsOf(kind) == SelectSeq(node_mgr_calls, LAMBDA c : c.call = kind)

\* Position of the first call of the kind, 0 when there is none.
FirstCall(kind) ==
    IF \E i \in DOMAIN node_mgr_calls : node_mgr_calls[i].call = kind
    THEN CHOOSE i \in DOMAIN node_mgr_calls :
            /\ node_mgr_calls[i].call = kind
            /\ \A j \in 1..(i - 1) : node_mgr_calls[j].call # kind
    ELSE 0

\* The requested names that are not in the inventory, in the requested order.
NotInInventory == SelectSeq(cli.node_list, LAMBDA n : n \notin inventory)

\* A name no partition lists.
InNoPartition(n) == \A p \in DOMAIN partitions : n \notin partitions[p]

\* The requested names that are neither in the inventory nor in a partition.
UnknownNames == {n \in Range(cli.node_list) : n \notin inventory /\ InNoPartition(n)}

CallOver == cli_pc \in {"returned", "raised"}

\* C14: the nodes handed to bootup are the requested names that are not in the
\* inventory, in the requested order, each from one allocation of count 1 from
\* a bucket of a partition that lists the name and carrying that name; no
\* allocation is ever made for a name that is in the inventory.
C14_BootupNodes ==
    /\ \A i \in DOMAIN node_mgr_calls :
          node_mgr_calls[i].call = "allocate"
             => node_mgr_calls[i].names[1] \notin inventory
    /\ CallsOf("bootup") # <<>> =>
          LET allocs == CallsOf("allocate") IN
          /\ CallsOf("bootup")[1].names = NotInInventory
          /\ Len(allocs) = Len(NotInInventory)
          /\ Len(nodes) = Len(NotInInventory)
          /\ \A i \in DOMAIN allocs :
                /\ allocs[i].names = <<NotInInventory[i]>>
                /\ allocs[i].node_count = 1
                /\ NotInInventory[i] \in partitions[allocs[i].bucket]
                /\ nodes[i].name = NotInInventory[i]
                /\ nodes[i].name_format = NotInInventory[i]
                /\ nodes[i].bucket = allocs[i].bucket

\* C14 witness: a request of an existing name and a new one has booted the new
\* one alone.
C14_Witness ==
    /\ cli.op = "resume"
    /\ cli_pc = "returned"
    /\ Len(cli.node_list) = 2
    /\ cli.node_list[1] \in inventory
    /\ cli.node_list[2] \notin inventory
    /\ Len(CallsOf("bootup")[1].names) = 1

\* C15 (as claimed): a resume that requests a name that is neither in the
\* inventory nor in any partition ends raising the unknown-node-name error.
C15_UnknownNameFailsAsClaimed ==
    (cli.op = "resume" /\ UnknownNames # {} /\ CallOver)
       => (cli_pc = "raised" /\ cli_error = "UnknownNodeName")

\* C15 (amended): such a resume never reaches bootup and ends raising: the
\* unknown-node-name error, or the RuntimeError of an allocation made for a name
\* that comes before the first unknown name and answered without a node.
C15_UnknownNameFails ==
    (cli.op = "resume" /\ UnknownNames # {}) =>
      /\ cli_pc \notin {"bootup", "wait", "returned"}
      /\ CallsOf("bootup") = <<>>
      /\ CallsOf("_wait_for_resume") = <<>>
      /\ cli_pc = "raised" =>
            \/ /\ cli_error = "UnknownNodeName"
               /\ cli.node_list[name_index] \in UnknownNames
               /\ \A j \in 1..(name_index - 1) : cli.node_list[j] \notin UnknownNames
            \/ /\ cli_error = "RuntimeError"
               /\ node_mgr_calls[Len(node_mgr_calls)].call = "allocate"
               /\ \A j \in 1..name_index : cli.node_list[j] \notin UnknownNames

\* C15 witness: the unknown name comes second, after a name that was allocated.
C15_Witness ==
    /\ cli.op = "resume"
    /\ cli_error = "UnknownNodeName"
    /\ name_index = 2
    /\ Len(CallsOf("allocate")) = 1

\* C16: a resume that returns has made one bootup call, after every allocation;
\* with no_wait no poll loop is run, otherwise one, last, over the whole
\* requested list and with the operation id the bootup answered.
C16_OneBootupThenWait ==
    (cli.op = "resume" /\ cli_pc = "returned") =>
      /\ Len(CallsOf("bootup")) = 1
      /\ \A i \in DOMAIN node_mgr_calls :
            node_mgr_calls[i].call = "allocate" => i < FirstCall("bootup")
      /\ IF cli.no_wait
         THEN /\ CallsOf("_wait_for_resume") = <<>>
              /\ FirstCall("bootup") = Len(node_mgr_calls)
         ELSE /\ CallsOf("_wait_for_resume") =
                    <<Call("_wait_for_resume", cli.node_list, 0, 0,
                           CallsOf("bootup")[1].operation_id)>>
              /\ FirstCall("_wait_for_resume") = Len(node_mgr_calls)
              /\ FirstCall("bootup") = Len(node_mgr_calls) - 1

\* C16 witness: a waiting resume of an existing name and a new one has returned.
C16_Witness ==
    /\ cli.op = "resume"
    /\ cli_pc = "returned"
    /\ ~cli.no_wait
    /\ Len(cli.node_list) = 2
    /\ cli.node_list[1] \notin inventory
    /\ cli.node_list[2] \in inventory
    /\ Len(CallsOf("_wait_for_resume")[1].names) = 2

\* C17: suspend and resume_fail make one call, shutdown_nodes, with the
\* requested names in the requested order, whatever the inventory holds; the
\* inventory is not read and only shutdown_nodes itself can make them raise.
C17_OneShutdown ==
    (cli.op \in {"suspend", "resume_fail"} /\ cli_pc # "start") =>
      /\ node_mgr_calls = <<Call("shutdown_nodes", cli.node_list, 0, 0, 0)>>
      /\ CallOver
      /\ cli_pc = "raised" => cli_error = "ShutdownError"

\* C17 witness: a suspend that names twice a node that is not in the inventory
\* has returned.
C17_Witness ==
    /\ cli.op = "suspend"
    /\ cli_pc = "returned"
    /\ Len(cli.node_list) = 2
    /\ cli.node_list[1] = cli.node_list[2]
    /\ cli.node_list[1] \notin inventory

\* The requested names before position i that are not in the inventory.
EarlierNotInInventory(i) ==
    SelectSeq(SubSeq(cli.node_list, 1, i - 1), LAMBDA n : n \notin inventory)

\* C32: when resume has raised the unknown-node-name error, no bootup call has
\* been made and the poll loop has not been started, and the allocations made
\* for the names earlier in the requested list stand: one allocation per
\* earlier name that is not in the inventory, the allocated nodes are still
\* held, and no call that would release them (a shutdown) has been made.
C32_UnknownNameLeavesAllocations ==
    (cli.op = "resume" /\ cli_error = "UnknownNodeName") =>
      LET allocs == CallsOf("allocate") IN
      /\ cli_pc = "raised"
      /\ CallsOf("bootup") = <<>>
      /\ CallsOf("_wait_for_resume") = <<>>
      /\ CallsOf("shutdown_nodes") = <<>>
      /\ boot_result = 0
      /\ Len(allocs) = Len(EarlierNotInInventory(name_index))
      /\ Len(nodes) = Len(allocs)
      /\ Len(node_mgr_calls) = 1 + Len(allocs)
      /\ \A i \in DOMAIN allocs :
            /\ allocs[i].names = <<EarlierNotInInventory(name_index)[i]>>
            /\ nodes[i].name = EarlierNotInInventory(name_index)[i]

\* C32 witness: the unknown name comes second and the node allocated for the
\* first name is still held.
C32_Witness ==
    /\ cli.op = "resume"
    /\ cli_error = "UnknownNodeName"
    /\ cli_pc = "raised"
    /\ Len(nodes) = 1
    /\ nodes[1].name = cli.node_list[1]
    /\ cli.node_list[2] \in UnknownNames

(***************************************************************************)
(* The retry executor: _retry_rest (lines 873-885) and _retry_subprocess   *)
(* (lines 888-900), which differ in a log line only. func is the wrapped   *)
(* operation: every invocation answers a value or raises with a message.   *)
(***************************************************************************)
\* Largest number of attempts a call asks for, besides the default.
MaxAttempts == 3
\* attempts: int = 5
DefaultAttempts == 5

RetryFuncs == {"_retry_rest", "_retry_subprocess"}
AttemptsGiven == (-1..MaxAttempts) \cup {DefaultAttempts}
Values == {"v1", "v2"}
Messages == {"e1", "e2"}

\* What one invocation of func does.
Outcomes == [kind : {"value"}, what : Values] \cup [kind : {"error"}, what : Messages]

\* Mutant of Attempts: the number of attempts is taken as given.
AttemptsAsGiven(attempts) == attempts

\* attempts = max(1, attempts)
Attempts(attempts) == IF 1 > attempts THEN 1 ELSE attempts

\* time.sleep(attempt * attempt)
SleepTime(k) == k * k

\* raise CyclecloudSlurmError(str(last_exception))
CyclecloudSlurmError(message) == [kind |-> "CyclecloudSlurmError", what |-> message]

RetryInit ==
    /\ WaitAtRest
    /\ EntryAtRest
    /\ KeepAtRest
    /\ ConfAtRest
    /\ retry \in [func : RetryFuncs, attempts : AttemptsGiven]
    /\ retry_pc = "start"
    /\ attempt = 0
    /\ last_exception = "None"
    /\ outcomes = <<>>
    /\ sleeps = <<>>
    /\ retry_result = NoResult

\* Lines 874-876: the loop is entered with attempt = 1, or, were the range
\* empty, left at once for the raise of line 885.
RetryStart ==
    /\ retry_pc = "start"
    /\ IF 1 <= Attempts(retry.attempts)
       THEN /\ attempt' = 1
            /\ retry_pc' = "attempt"
            /\ UNCHANGED retry_result
       ELSE /\ retry_pc' = "raised"
            /\ retry_result' = CyclecloudSlurmError(last_exception)
            /\ UNCHANGED attempt
    /\ UNCHANGED <<retry, last_exception, outcomes, sleeps>>
    /\ UNCHANGED <<vars, entryVars, keepVars, confVars>>

\* Lines 877-880: try: return func() / except Exception as e: last_exception = e
RetryAttempt ==
    /\ retry_pc = "attempt"
    /\ \E out \in Outcomes :
         /\ outcomes' = Append(outcomes, out)
         /\ IF out.kind = "value"
            THEN /\ retry_pc' = "returned"
                 /\ retry_result' = out
                 /\ UNCHANGED last_exception
            ELSE /\ retry_pc' = "sleep"
                 /\ last_exception' = out.what
                 /\ UNCHANGED retry_result
    /\ UNCHANGED <<retry, attempt, sleeps>>
    /\ UNCHANGED <<vars, entryVars, keepVars, confVars>>

\* Line 883, in the except block of every failed attempt: time.sleep; then
\* the next attempt, or after the last one the raise of line 885.
RetrySleep ==
    /\ retry_pc = "sleep"
    /\ sleeps' = Append(sleeps, SleepTime(attempt))
    /\ IF attempt < Attempts(retry.attempts)
       THEN /\ attempt' = attempt + 1
            /\ retry_pc' = "attempt"
            /\ UNCHANGED retry_result
       ELSE /\ retry_pc' = "raised"
            /\ retry_result' = CyclecloudSlurmError(last_exception)
            /\ UNCHANGED attempt
    /\ UNCHANGED <<retry, last_exception, outcomes>>
    /\ UNCHANGED <<vars, entryVars, keepVars, confVars>>

RetryNext == RetryStart \/ RetryAttempt \/ RetrySleep

RetrySpec == RetryInit /\ [][RetryNext]_<<vars, otherVars>>

\* The attempts the executor is to make.
MaxTries == IF retry.attempts < 1 THEN 1 ELSE retry.attempts

\* C18 (as claimed): the k-th sleep lasts k*k, one sleep follows each failed
\* attempt but the last: an executor that has raised after n failed attempts
\* has slept 1, 4, ..., (n-1)^2.
C18_BackoffSleeps ==
    /\ \A k \in DOMAIN sleeps : sleeps[k] = k * k
    /\ Len(sleeps) <= MaxTries - 1
    /\ retry_pc = "raised" => Len(sleeps) = MaxTries - 1

\* C19: func is invoked at most max(1, attempts) times; the first invocation
\* that answers ends the call with its value; when all max(1, attempts)
\* invocations raise, the call raises one CyclecloudSlurmError with the message
\* of the last of them, and no other failure reaches the caller.
C19_RetryResult ==
    /\ Len(outcomes) <= MaxTries
    /\ \A i \in 1..(Len(outcomes) - 1) : outcomes[i].kind = "error"
    /\ retry_pc \in {"start", "attempt", "sleep"} => retry_result = NoResult
    /\ retry_pc = "returned" =>
          /\ outcomes[Len(outcomes)].kind = "value"
          /\ retry_result = outcomes[Len(outcomes)]
    /\ retry_pc = "raised" =>
          /\ Len(outcomes) = MaxTries
          /\ \A i \in DOMAIN outcomes : outcomes[i].kind = "error"
          /\ retry_result.kind = "CyclecloudSlurmError"
          /\ retry_result.what = outcomes[Len(outcomes)].what

\* C19 witness: three attempts were asked for, all three failed, the first and
\* the last with different messages, and the error raised carries the last.
C19_Witness ==
    /\ retry_pc = "raised"
    /\ retry.attempts = 3
    /\ Len(outcomes) = 3
    /\ outcomes[1].what # outcomes[3].what
    /\ retry_result = CyclecloudSlurmError(outcomes[3].what)

(***************************************************************************)
(* keep_alive: SlurmCLI.keep_alive (lines 499-554). Node names are the     *)
(* numbers of NodeNames; a hostlist expression is a sequence of ranges     *)
(* <<lo, hi>>, which scontrol expands and compresses.                      *)
(***************************************************************************)
HostRanges == {r \in NodeNames \X NodeNames : r[1] <= r[2]}

\* The values SuspendExcNodes can have in the scheduler's config; <<>> is (null).
HostlistExprs == UNION {[1..k -> HostRanges] : k \in 0..MaxNodes}

\* slutil.from_hostlist / scontrol show hostnames: the names of an expression.
RECURSIVE FromHostlist(_)
FromHostlist(expr) ==
    IF expr = <<>>
    THEN <<>>
    ELSE [i \in 1..(Head(expr)[2] - Head(expr)[1] + 1) |-> Head(expr)[1] + i - 1]
            \o FromHostlist(Tail(expr))

\* scontrol show hostnames on names joined by commas: the names, as given.
ShowHostnames(names) == FromHostlist([i \in DOMAIN names |-> <<names[i], names[i]>>])

\* scontrol show hostlist on names joined by commas: a name that follows the
\* last range extends it, any other name starts a range.
RECURSIVE ShowHostlist(_)
ShowHostlist(names) ==
    IF names = <<>>
    THEN <<>>
    ELSE LET front == ShowHostlist(SubSeq(names, 1, Len(names) - 1))
             name == names[Len(names)]
         IN IF front # <<>> /\ front[Len(front)][2] + 1 = name
            THEN [front EXCEPT ![Len(front)] = <<@[1], name>>]
            ELSE Append(front, <<name, name>>)

\* sorted(list(set(names)), key=slutil.get_sort_key_func(False))
RECURSIVE SortedSet(_)
SortedSet(S) ==
    IF S = {}
    THEN <<>>
    ELSE LET least == CHOOSE m \in S : \A n \in S : m <= n
         IN <<least>> \o SortedSet(S \ {least})

\* Mutant of HostnamesChoices: the given names are added whatever the flags.
HostnamesChoicesAdd(current, given, remove, set_nodes) == {current \o given}

\* Mutant of HostnamesChoices: the names read from the configuration are dropped.
HostnamesChoicesGiven(current, given, remove, set_nodes) == {given}

\* Lines 525-530; list(set(..)) has any order.
HostnamesChoices(current, given, remove, set_nodes) ==
    IF set_nodes
    THEN Perms(Range(given))
    ELSE IF remove
         THEN Perms(Range(current) \ Range(given))
         ELSE {current \o given}

KeepInit ==
    /\ WaitAtRest
    /\ EntryAtRest
    /\ RetryAtRest
    /\ ConfAtRest
    /\ keep \in [node_list : Requests, remove : BOOLEAN, set_nodes : BOOLEAN]
    /\ susp_exc_nodes \in HostlistExprs
    /\ keep_pc = "start"
    /\ current_susp_nodes = <<>>
    /\ hostnames = <<>>
    /\ all_susp_hostnames = <<>>
    /\ keep_alive_conf = NotWritten
    /\ scontrol_cmds = <<>>

\* Lines 510-523: the check of the flags, then scontrol show config and the
\* names of its SuspendExcNodes line. A scontrol command answers or raises.
KeepAliveStart ==
    /\ keep_pc = "start"
    /\ IF keep.remove /\ keep.set_nodes
       THEN /\ keep_pc' = "raised"
            /\ UNCHANGED <<scontrol_cmds, current_susp_nodes>>
       ELSE /\ scontrol_cmds' = Append(scontrol_cmds, "show config")
            /\ \E ok \in BOOLEAN :
                 IF ok
                 THEN /\ current_susp_nodes' = FromHostlist(susp_exc_nodes)
                      /\ keep_pc' = "compute"
                 ELSE /\ keep_pc' = "raised"
                      /\ UNCHANGED current_susp_nodes
    /\ UNCHANGED <<keep, susp_exc_nodes, hostnames, all_susp_hostnames,
                   keep_alive_conf>>
    /\ UNCHANGED <<vars, entryVars, retryVars, confVars>>

\* Lines 525-546: hostnames, their expansion, and the sorted set of it.
KeepAliveHostnames ==
    /\ keep_pc = "compute"
    /\ \E chosen \in HostnamesChoices(current_susp_nodes, keep.node_list,
                                       keep.remove, keep.set_nodes) :
         /\ hostnames' = chosen
         /\ scontrol_cmds' = Append(scontrol_cmds, "show hostnames")
         /\ \E ok \in BOOLEAN :
              IF ok
              THEN /\ all_susp_hostnames' = SortedSet(Range(ShowHostnames(chosen)))
                   /\ keep_pc' = "write"
              ELSE /\ keep_pc' = "raised"
                   /\ UNCHANGED all_susp_hostnames
    /\ UNCHANGED <<keep, susp_exc_nodes, current_susp_nodes, keep_alive_conf>>
    /\ UNCHANGED <<vars, entryVars, retryVars, confVars>>

\* Lines 547-553: scontrol show hostlist, then the file is written and moved.
KeepAliveWrite ==
    /\ keep_pc = "write"
    /\ scontrol_cmds' = Append(scontrol_cmds, "show hostlist")
    /\ \E ok \in BOOLEAN :
         IF ok
         THEN /\ keep_alive_conf' = ShowHostlist(all_susp_hostnames)
              /\ keep_pc' = "reconfig"
         ELSE /\ keep_pc' = "raised"
              /\ UNCHANGED keep_alive_conf
    /\ UNCHANGED <<keep, susp_exc_nodes, current_susp_nodes, hostnames,
                   all_susp_hostnames>>
    /\ UNCHANGED <<vars, entryVars, retryVars, confVars>>

\* Line 554: scontrol reconfig.
KeepAliveReconfig ==
    /\ keep_pc = "reconfig"
    /\ scontrol_cmds' = Append(scontrol_cmds, "reconfig")
    /\ \E ok \in BOOLEAN : keep_pc' = IF ok THEN "returned" ELSE "raised"
    /\ UNCHANGED <<keep, susp_exc_nodes, current_susp_nodes, hostnames,
                   all_susp_hostnames, keep_alive_conf>>
    /\ UNCHANGED <<vars, entryVars, retryVars, confVars>>

KeepNext == KeepAliveStart \/ KeepAliveHostnames \/ KeepAliveWrite \/ KeepAliveReconfig

KeepSpec == KeepInit /\ [][KeepNext]_<<vars, otherVars>>

\* The names the written file excludes from suspend.
WrittenNames == FromHostlist(keep_alive_conf)

\* The names the scheduler's config excluded before the call.
CurrentNames == Range(FromHostlist(susp_exc_nodes))

\* C20: the file written names current + given by default, current - given
\* with remove and the given names with set, each name once; remove and set
\* together raise with no scontrol command run and no file written; the
\* reconfigure is run only once the file is written.
C20_KeepAliveSet ==
    /\ keep_alive_conf # NotWritten =>
          /\ Range(WrittenNames) =
                IF keep.set_nodes THEN Range(keep.node_list)
                ELSE IF keep.remove THEN CurrentNames \ Range(keep.node_list)
                ELSE CurrentNames \cup Range(keep.node_list)
          /\ \A i, j \in DOMAIN WrittenNames :
                WrittenNames[i] = WrittenNames[j] => i = j
    /\ (keep.remove /\ keep.set_nodes) =>
          /\ keep_pc \in {"start", "raised"}
          /\ keep_alive_conf = NotWritten
          /\ scontrol_cmds = <<>>
    /\ (\E i \in DOMAIN scontrol_cmds : scontrol_cmds[i] = "reconfig")
          => keep_alive_conf # NotWritten
    /\ keep_pc = "returned" =>
          /\ keep_alive_conf # NotWritten
          /\ scontrol_cmds[Len(scontrol_cmds)] = "reconfig"

\* C20 witness: names given out of order, one of them excluded already, are
\* added to the current ones and the file holds one range.
C20_Witness ==
    /\ keep_pc = "returned"
    /\ ~keep.remove /\ ~keep.set_nodes
    /\ Len(keep.node_list) = 2
    /\ keep.node_list[1] > keep.node_list[2]
    /\ CurrentNames # {}
    /\ Len(keep_alive_conf) = 1
    /\ keep_alive_conf[1][1] < keep_alive_conf[1][2]

(***************************************************************************)
(* Two keep_alive invocations at the same time. Each is a process of its   *)
(* own running lines 515-554; what they share is the scheduler's running   *)
(* configuration (read by scontrol show config, set from keep_alive.conf   *)
(* by scontrol reconfig) and the two files /sched/keep_alive.conf.tmp and  *)
(* /sched/keep_alive.conf. Nothing in keep_alive takes a lock, so the      *)
(* steps of the two interleave in any order.                               *)
(***************************************************************************)
Invocations == {1, 2}

\* The node lists given to the invocations: names to add, in order.
AddLists == {SortedSet(S) : S \in (SUBSET NodeNames) \ {{}}}

\* SuspendExcNodes before the invocations: (null) or one range.
PairConfigs == {<<>>} \cup {<<r>> : r \in HostRanges}

\* A scontrol command run by invocation p.
Cmd(p, cmd) == [by |-> p, cmd |-> cmd]

PairInit ==
    /\ WaitAtRest
    /\ EntryAtRest
    /\ RetryAtRest
    /\ KeepAtRest
    /\ GenAtRest
    /\ ScaleAtRest
    /\ InstAtRest
    /\ invocations \in [Invocations -> [node_list : AddLists, pc : {"start"},
                                         current_susp_nodes : {<<>>},
                                         all_susp_hostlist : {<<>>}]]
    /\ invocations[1].node_list # invocations[2].node_list
    /\ \E expr \in PairConfigs :
          sched = [susp_exc_nodes |-> expr, tmp |-> NoFile, conf |-> expr,
                   cmds |-> <<>>]

\* Lines 515-549 of invocation p: scontrol show config and the names of its
\* SuspendExcNodes line, then hostnames = current_susp_nodes + node_list, its
\* expansion, the sorted set of it and its host list. The scontrol commands
\* answer or one of them raises.
PairRead(p) ==
    /\ invocations[p].pc = "start"
    /\ sched' = [sched EXCEPT !.cmds = Append(@, Cmd(p, "show config"))]
    /\ \E ok \in BOOLEAN :
         IF ok
         THEN \E current \in {FromHostlist(sched.susp_exc_nodes)} :
              \E chosen \in HostnamesChoices(current, invocations[p].node_list,
                                             FALSE, FALSE) :
                 invocations' =
                    [invocations EXCEPT
                       ![p].pc = "write",
                       ![p].current_susp_nodes = current,
                       ![p].all_susp_hostlist =
                          ShowHostlist(SortedSet(Range(ShowHostnames(chosen))))]
         ELSE invocations' = [invocations EXCEPT ![p].pc = "raised"]
    /\ UNCHANGED exceptPair

\* Lines 551-552 of invocation p: open("/sched/keep_alive.conf.tmp", "w") and
\* the write, which replace whatever the file held.
PairWriteTmp(p) ==
    /\ invocations[p].pc = "write"
    /\ sched' = [sched EXCEPT !.tmp = invocations[p].all_susp_hostlist]
    /\ invocations' = [invocations EXCEPT ![p].pc = "move"]
    /\ UNCHANGED exceptPair

\* Line 553 of invocation p: shutil.move of the .tmp file over keep_alive.conf;
\* it raises when the .tmp file is no longer there.
PairMove(p) ==
    /\ invocations[p].pc = "move"
    /\ IF sched.tmp = NoFile
       THEN /\ invocations' = [invocations EXCEPT ![p].pc = "raised"]
            /\ UNCHANGED sched
       ELSE /\ sched' = [sched EXCEPT !.conf = sched.tmp, !.tmp = NoFile]
            /\ invocations' = [invocations EXCEPT ![p].pc = "reconfig"]
    /\ UNCHANGED exceptPair

\* Line 554 of invocation p: scontrol reconfig, after which the scheduler's
\* SuspendExcNodes is what keep_alive.conf holds, or which raises.
PairReconfig(p) ==
    /\ invocations[p].pc = "reconfig"
    /\ \E ok \in BOOLEAN :
         /\ sched' = [sched EXCEPT
                        !.cmds = Append(@, Cmd(p, "reconfig")),
                        !.susp_exc_nodes = IF ok THEN sched.conf ELSE @]
         /\ invocations' =
              [invocations EXCEPT ![p].pc = IF ok THEN "returned" ELSE "raised"]
    /\ UNCHANGED exceptPair

PairNext ==
    \E p \in Invocations :
       PairRead(p) \/ PairWriteTmp(p) \/ PairMove(p) \/ PairReconfig(p)

PairSpec == PairInit /\ [][PairNext]_<<vars, otherVars>>

\* The names excluded from suspend in the scheduler's running configuration.
InEffect == Range(FromHostlist(sched.susp_exc_nodes))

BothCompleted == \A p \in Invocations : invocations[p].pc = "returned"

\* Position of the command of invocation p in the commands run, 0 when it was
\* not run.
CmdAt(p, cmd) ==
    IF \E i \in DOMAIN sched.cmds : sched.cmds[i] = Cmd(p, cmd)
    THEN CHOOSE i \in DOMAIN sched.cmds : sched.cmds[i] = Cmd(p, cmd)
    ELSE 0

\* Invocation q read the configuration after invocation p had reconfigured.
ReadAfter(q, p) ==
    /\ CmdAt(p, "reconfig") > 0
    /\ CmdAt(q, "show config") > CmdAt(p, "reconfig")

\* C35 as claimed: after two invocations that add different node lists have
\* both completed, the names excluded from suspend hold the nodes of both.
C35_NoUpdateLost ==
    BothCompleted =>
       \A p \in Invocations : Range(invocations[p].node_list) \subseteq InEffect

\* C35 (amended): after both have completed, the names in effect are those of
\* keep_alive.conf, written by one of the two: the names that invocation read
\* plus its own. They hold the nodes of both invocations when one of them
\* read the configuration after the other had reconfigured.
C35_SerialKeepsBoth ==
    BothCompleted =>
       /\ sched.susp_exc_nodes = sched.conf
       /\ \E p \in Invocations :
             /\ sched.conf = invocations[p].all_susp_hostlist
             /\ InEffect = Range(invocations[p].current_susp_nodes)
                              \cup Range(invocations[p].node_list)
       /\ (\E p, q \in Invocations : ReadAfter(q, p)) =>
             \A p \in Invocations :
                Range(invocations[p].node_list) \subseteq InEffect

\* C35 witness: nothing was excluded, invocation 1 added node 1 and
\* reconfigured, then invocation 2 read the configuration and added node 2.
C35_Witness ==
    /\ BothCompleted
    /\ ReadAfter(2, 1)
    /\ invocations[1].node_list = <<1>>
    /\ invocations[2].node_list = <<2>>
    /\ invocations[2].current_susp_nodes = <<1>>
    /\ InEffect = {1, 2}

(***************************************************************************)
(* The partition renderer: _partitions, called by SlurmCLI.partitions.     *)
(***************************************************************************)
\* Number of partitions one rendering can be given.
MaxRendered == 2

\* partition.node_list: None, the empty host list, or a host list.
None == "<None>"
NodeListValues == {None, "", "htc-[1-2]"}

\* The lists of k elements whose first element is of First and whose other
\* elements are of Rest.
ListsOf(First, Rest, k) ==
    IF k = 0 THEN {<<>>}
    ELSE {[i \in 1..k |-> IF i = 1 THEN f ELSE r[i]] :
             f \in First, r \in [2..k -> Rest]}

\* The partitions of the model, by the fields the renderer reads; the name is
\* the partition's position.  memory is in MB.
Partition == [node_list : NodeListValues, is_default : BOOLEAN,
              memory : {100, 2048}, pcpu_count : {1, 2}, vcpu_count : {2},
              use_pcpu : BOOLEAN, gpu_count : {0, 1}]

\* The partitions after the first one of a rendering.  Only the first one
\* can be the cluster's default; the loop body treats every partition alike,
\* so the CPU and GPU fields vary on the first partition only.
LaterPartition ==
    {p \in Partition : ~p.is_default /\ p.use_pcpu /\ p.gpu_count = 0}

Max(a, b) == IF a > b THEN a ELSE b

\* "{}".format(x) of None, of [] and of a string.
Format(x) == IF x = None THEN "None" ELSE IF x = "<[]>" THEN "[]" ELSE x

\* partition.node_list or []
NodeListOrEmpty(partition) ==
    IF partition.node_list = None \/ partition.node_list = ""
    THEN "<[]>" ELSE partition.node_list

\* Mutant of Memory: the floor is left out.
MemoryUnfloored(partition) == partition.memory

\* memory = max(1024, partition.memory)
Memory(partition) == Max(1024, partition.memory)

\* def_mem_per_cpu = memory // partition.pcpu_count
DefMemPerCpu(partition) == Memory(partition) \div partition.pcpu_count

\* cpus and threads of the Nodename line
Cpus(partition) ==
    IF partition.use_pcpu THEN partition.pcpu_count ELSE partition.vcpu_count

Threads(partition) ==
    IF partition.use_pcpu
    THEN Max(1, partition.vcpu_count \div partition.pcpu_count) ELSE 1

\* Mutant of NodeState: the autoscale option is not read.
NodeStateCloud(autoscale) == "CLOUD"

\* state = "CLOUD" if autoscale else "FUTURE"
NodeState(autoscale) == IF autoscale THEN "CLOUD" ELSE "FUTURE"

\* The three comment lines written ahead of a partition's lines.
CommentLines(partition) ==
    << [key |-> "#", text |-> "Note", reported |-> partition.memory * 1024],
       [key |-> "#", text |-> "would result", reported |-> 0],
       [key |-> "#", text |-> "To pick", reported |-> 0] >>

PartitionNameLine(name, partition) ==
    [key |-> "PartitionName", PartitionName |-> name,
     Nodes |-> Format(partition.node_list),
     Default |-> IF partition.is_default THEN "YES" ELSE "NO",
     DefMemPerCPU |-> DefMemPerCpu(partition)]

\* The Nodename line, with the Gres field written only for a GPU partition
\* (Gres 0 stands for the field being absent).
NodenameLine(partition, autoscale) ==
    [key |-> "Nodename", Nodename |-> Format(NodeListOrEmpty(partition)),
     State |-> NodeState(autoscale), CPUs |-> Cpus(partition),
     ThreadsPerCore |-> Threads(partition), RealMemory |-> Memory(partition),
     Gres |-> IF partition.gpu_count # 0 THEN partition.gpu_count ELSE 0]

PartInit ==
    /\ \E k \in 0..MaxRendered :
          render \in [partitions : ListsOf(Partition, LaterPartition, k),
                      allow_empty : BOOLEAN, autoscale : BOOLEAN]
    /\ render_index = 0
    /\ writer = <<>>
    /\ WaitAtRest
    /\ EntryAtRest
    /\ RetryAtRest
    /\ KeepAtRest
    /\ GresAtRest
    /\ TopoAtRest
    /\ PrepAtRest
    /\ AutoAtRest
    /\ LaterAtRest

\* One iteration of `for partition in partitions.values()`; allow_empty is a
\* parameter the body never reads.
PartitionsWrite ==
    /\ render_index < Len(render.partitions)
    /\ \E partition \in {render.partitions[render_index + 1]} :
          writer' = writer \o CommentLines(partition)
                      \o << PartitionNameLine(render_index + 1, partition),
                            NodenameLine(partition, render.autoscale) >>
    /\ render_index' = render_index + 1
    /\ UNCHANGED render
    /\ UNCHANGED exceptPart

PartNext == PartitionsWrite

PartSpec == PartInit /\ [][PartNext]_<<vars, otherVars>>

(***************************************************************************)
(* Claims about the partition renderer.                                    *)
(***************************************************************************)
\* The lines of a kind, in the order written.
LinesOf(key) == SelectSeq(writer, LAMBDA line : line.key = key)

\* The partitions rendered so far are the first render_index ones.
Rendered == 1..render_index

RenderingDone == render_index = Len(render.partitions)

\* C21: for every rendered partition the Nodename line's RealMemory is
\* max(1024, partition memory) and the PartitionName line's DefMemPerCPU is
\* that floored memory integer-divided by the physical CPU count; a partition
\* reporting 100 MB renders RealMemory=1024.
C21_MemoryFloor ==
    /\ Len(LinesOf("Nodename")) = render_index
    /\ Len(LinesOf("PartitionName")) = render_index
    /\ \A i \in Rendered :
          \E floored \in {IF render.partitions[i].memory < 1024 THEN 1024
                          ELSE render.partitions[i].memory} :
             /\ LinesOf("Nodename")[i].RealMemory = floored
             /\ floored >= 1024
             /\ render.partitions[i].memory = 100 => floored = 1024
             /\ LinesOf("PartitionName")[i].DefMemPerCPU * render.partitions[i].pcpu_count
                   <= floored
             /\ (LinesOf("PartitionName")[i].DefMemPerCPU + 1) * render.partitions[i].pcpu_count
                   > floored

C21_Witness ==
    /\ RenderingDone
    /\ render_index = 2
    /\ render.partitions[1].memory = 100 /\ render.partitions[1].pcpu_count = 2
    /\ LinesOf("Nodename")[1].RealMemory = 1024
    /\ LinesOf("PartitionName")[1].DefMemPerCPU = 512
    /\ LinesOf("Nodename")[2].RealMemory = 2048

\* A partition whose node list is empty or absent.
HasNoNodes(partition) == partition.node_list = None \/ partition.node_list = ""

\* C22: with allow_empty false no PartitionName or Nodename line is written
\* for a partition whose node list is empty or absent; with allow_empty true
\* the lines of such a partition are written.
C22_EmptyOmitted ==
    \A i \in Rendered :
       HasNoNodes(render.partitions[i]) =>
          ((\E l \in DOMAIN writer :
               /\ writer[l].key = "PartitionName"
               /\ writer[l].PartitionName = i)
             <=> render.allow_empty)

\* C23: every rendered partition produces exactly one PartitionName line,
\* followed at once by exactly one Nodename line, and that Nodename line
\* declares STATE=CLOUD when autoscaling is enabled and STATE=FUTURE when it
\* is disabled.
C23_StateAndLinePairs ==
    /\ \A i \in Rendered :
          /\ Cardinality({l \in DOMAIN writer :
                /\ writer[l].key = "PartitionName"
                /\ writer[l].PartitionName = i}) = 1
          /\ \A l \in DOMAIN writer :
                (writer[l].key = "PartitionName" /\ writer[l].PartitionName = i)
                   => /\ l + 1 \in DOMAIN writer
                      /\ writer[l + 1].key = "Nodename"
                      /\ writer[l + 1].State
                            = (IF render.autoscale THEN "CLOUD" ELSE "FUTURE")
    /\ Len(LinesOf("PartitionName")) = render_index
    /\ Len(LinesOf("Nodename")) = render_index
    /\ \A l \in DOMAIN writer :
          writer[l].key = "Nodename"
             => (l > 1 /\ writer[l - 1].key = "PartitionName")

C23_Witness ==
    /\ RenderingDone
    /\ render_index = 2
    /\ ~render.autoscale
    /\ LinesOf("Nodename")[1].State = "FUTURE"
    /\ LinesOf("Nodename")[2].State = "FUTURE"

(***************************************************************************)
(* The GRES generator: _generate_gres_conf.                                *)
(***************************************************************************)
\* Largest partition.max_vm_count, max_scaleset_size and gpu_count.
MaxVmCount == 3
MaxScalesetSize == 2
MaxGpuCount == 2

\* The partitions of the model, by the fields the generator reads; node_list
\* is None or a host list of node_count names, which the generator never
\* compares with max_vm_count.
GresPartition == [has_node_list : BOOLEAN, node_count : 0..MaxVmCount + 1,
                  max_vm_count : 1..MaxVmCount,
                  max_scaleset_size : 1..MaxScalesetSize,
                  gpu_count : 0..MaxGpuCount]

\* The partitions after the first one of a generation; the loop body treats
\* every partition alike, so the sizes vary on the first partition only.
LaterGresPartition ==
    {p \in GresPartition : /\ p.node_count = 2
                           /\ p.max_vm_count = 2
                           /\ p.max_scaleset_size = 1
                           /\ p.gpu_count <= 1}

\* Mutant of CeilDiv: the quotient is rounded down.
FloorDiv(a, b) == a \div b

\* int(ceil(float(a) / b))
CeilDiv(a, b) == IF a % b = 0 THEN a \div b ELSE (a \div b) + 1

\* sorted(slutil.from_hostlist(partition.node_list)): the nodes, by number.
AllNodes(partition) == [i \in 1..partition.node_count |-> i]

\* Mutant of Slice: the element at `end` is taken too.
SliceEndIncluded(s, start, end) ==
    SubSeq(s, Min(start, Len(s)) + 1, Min(Max(end + 1, start), Len(s)))

\* all_nodes[start:end], a Python slice (0-based, end excluded, clipped).
Slice(s, start, end) ==
    SubSeq(s, Min(start, Len(s)) + 1, Min(Max(end, start), Len(s)))

\* nvidia_devices of a partition with GPUs.
NvidiaDevices(gpu_count) ==
    IF gpu_count > 1
    THEN [path |-> "/dev/nvidia", range |-> TRUE, first |-> 0, last |-> gpu_count - 1]
    ELSE [path |-> "/dev/nvidia", range |-> FALSE, first |-> 0, last |-> 0]

\* What one pass of `for pg_index in range(num_placement_groups)` writes: the
\* Nodename text of a GPU partition and then the newline, or the newline only.
\* `of` notes the partition the line was written for.
GresLine(of, partition, pg_index) ==
    \* writer.write("\n") alone leaves an empty line
    IF partition.gpu_count = 0
    THEN [key |-> "", of |-> of, Nodename |-> <<>>, Count |-> 0,
          File |-> NvidiaDevices(0)]
    ELSE [key |-> "Nodename", of |-> of,
          Nodename |-> Slice(AllNodes(partition),
                             pg_index * partition.max_scaleset_size,
                             Min(partition.max_vm_count,
                                 (pg_index + 1) * partition.max_scaleset_size)),
          Count |-> partition.gpu_count,
          File |-> NvidiaDevices(partition.gpu_count)]

GresLines(of, partition) ==
    [pg \in 1..CeilDiv(partition.max_vm_count, partition.max_scaleset_size)
        |-> GresLine(of, partition, pg - 1)]

GresInit ==
    /\ \E k \in 0..MaxRendered :
          gres \in ListsOf(GresPartition, LaterGresPartition, k)
    /\ gres_index = 0
    /\ gres_pc = "loop"
    /\ gres_writer = <<>>
    /\ WaitAtRest
    /\ EntryAtRest
    /\ RetryAtRest
    /\ KeepAtRest
    /\ PartAtRest
    /\ TopoAtRest
    /\ PrepAtRest
    /\ AutoAtRest
    /\ LaterAtRest

\* One iteration of `for partition in partitions.values()`.
GresWrite ==
    /\ gres_pc = "loop"
    /\ gres_index < Len(gres)
    /\ \E partition \in {gres[gres_index + 1]} :
          IF ~partition.has_node_list
          THEN \* raise RuntimeError("No nodes found for nodearray ...")
               /\ gres_pc' = "raised"
               /\ UNCHANGED <<gres_index, gres_writer>>
          ELSE /\ gres_writer' = gres_writer \o GresLines(gres_index + 1, partition)
               /\ gres_index' = gres_index + 1
               /\ UNCHANGED gres_pc
    /\ UNCHANGED gres
    /\ UNCHANGED exceptGres

\* The loop is over.
GresReturn ==
    /\ gres_pc = "loop"
    /\ gres_index = Len(gres)
    /\ gres_pc' = "returned"
    /\ UNCHANGED <<gres, gres_index, gres_writer>>
    /\ UNCHANGED exceptGres

GresNext == GresWrite \/ GresReturn

GresSpec == GresInit /\ [][GresNext]_<<vars, otherVars>>

(***************************************************************************)
(* Claims about the GRES generator.                                        *)
(***************************************************************************)
\* The 'Nodename=... Name=gpu' lines written for the partition at position i.
GpuLinesOf(i) ==
    SelectSeq(gres_writer, LAMBDA line : line.key = "Nodename" /\ line.of = i)

\* The number of chunks of at most max_scaleset_size that hold max_vm_count.
ChunksOf(partition) ==
    CHOOSE n \in 0..MaxVmCount + 1 :
       /\ n * partition.max_scaleset_size >= partition.max_vm_count
       /\ (n - 1) * partition.max_scaleset_size < partition.max_vm_count

\* The lines of a GPU partition are as the claim says.
GresLinesAsClaimed(i) ==
    /\ Len(GpuLinesOf(i)) = ChunksOf(gres[i])
    /\ \A l \in DOMAIN GpuLinesOf(i) :
          /\ GpuLinesOf(i)[l].Count = gres[i].gpu_count
          /\ GpuLinesOf(i)[l].File.path = "/dev/nvidia"
          /\ GpuLinesOf(i)[l].File.first = 0
          /\ gres[i].gpu_count = 1 => ~GpuLinesOf(i)[l].File.range
          /\ gres[i].gpu_count > 1
                => /\ GpuLinesOf(i)[l].File.range
                   /\ GpuLinesOf(i)[l].File.last = gres[i].gpu_count - 1

GresOver == gres_pc \in {"returned", "raised"}

PlacesOf(i, n) ==
    UNION {{<<l, k>> : k \in {j \in DOMAIN GpuLinesOf(i)[l].Nodename :
                                 GpuLinesOf(i)[l].Nodename[j] = n}}
              : l \in DOMAIN GpuLinesOf(i)}

\* C34: for a GPU partition the generator has passed whose node list has at
\* most max_vm_count names, every chunk of its GRES lines holds at most
\* max_scaleset_size nodes, all of them nodes of the node list, and every node
\* of the node list is at exactly one place of exactly one chunk (so the
\* chunks are pairwise disjoint and together are the node list).
C34_ChunksPartitionNodeList ==
    \A i \in 1..gres_index :
       (gres[i].gpu_count > 0 /\ gres[i].node_count <= gres[i].max_vm_count) =>
          /\ \A l \in DOMAIN GpuLinesOf(i) :
                /\ Len(GpuLinesOf(i)[l].Nodename) <= gres[i].max_scaleset_size
                /\ Range(GpuLinesOf(i)[l].Nodename) \subseteq Range(AllNodes(gres[i]))
          /\ \A n \in Range(AllNodes(gres[i])) : Cardinality(PlacesOf(i, n)) = 1

\* C34 witness: a GPU partition of two nodes, fewer than its max_vm_count of
\* three, was written in chunks of one node: <<1>>, <<2>> and an empty one.
C34_Witness ==
    /\ gres_pc = "returned"
    /\ gres_index >= 1
    /\ gres[1].gpu_count > 0
    /\ gres[1].node_count = 2
    /\ gres[1].max_vm_count = 3
    /\ gres[1].max_scaleset_size = 1
    /\ Len(GpuLinesOf(1)) = 3
    /\ GpuLinesOf(1)[1].Nodename = <<1>>
    /\ GpuLinesOf(1)[2].Nodename = <<2>>
    /\ GpuLinesOf(1)[3].Nodename = <<>>

(***************************************************************************)
(* scale: SlurmCLI.scale (lines 435-486). The partitions are what          *)
(* partitionlib.fetch_partitions answers with; azure.conf is generated by  *)
(* _partitions and gres.conf by _generate_gres_conf from the same          *)
(* partitions.                                                             *)
(***************************************************************************)
\* The partitions of the model, by the fields _partitions and
\* _generate_gres_conf read of them.
ScalePartition ==
    {p \in [node_list : {None, "htc-[1-2]"}, has_node_list : BOOLEAN,
            is_default : {FALSE}, memory : {2048}, pcpu_count : {1},
            vcpu_count : {2}, use_pcpu : {TRUE}, gpu_count : {0, 1},
            node_count : {2}, max_vm_count : {2}, max_scaleset_size : {1, 2}] :
        p.has_node_list = (p.node_list # None)}

\* The partitions after the first one: the chunk size varies on the first only.
LaterScalePartition == {p \in ScalePartition : p.max_scaleset_size = 1}

\* What azure.conf or gres.conf holds before the call, when it exists.
OldFile == File(<<[key |-> "old"]>>)

\* What _partitions writes for the partitions from position i on.
RECURSIVE AzureLinesFrom(_, _, _)
AzureLinesFrom(ps, i, autoscale) ==
    IF i > Len(ps)
    THEN <<>>
    ELSE CommentLines(ps[i])
            \o << PartitionNameLine(i, ps[i]), NodenameLine(ps[i], autoscale) >>
            \o AzureLinesFrom(ps, i + 1, autoscale)

\* What _generate_gres_conf does for the partitions from position i on: the
\* lines it writes, and whether it raises (at the first partition whose
\* node_list is None, with the lines of the partitions before it written).
RECURSIVE GresConfFrom(_, _)
GresConfFrom(ps, i) ==
    IF i > Len(ps)
    THEN [lines |-> <<>>, raised |-> FALSE]
    ELSE IF ~ps[i].has_node_list
         THEN [lines |-> <<>>, raised |-> TRUE]
         ELSE LET rest == GresConfFrom(ps, i + 1)
              IN [lines |-> GresLines(i, ps[i]) \o rest.lines,
                  raised |-> rest.raised]

\* shutil.copyfile(path, backup) if os.path.exists(path)
CopyIfExists(file) == IF file.exists THEN file ELSE Absent

\* Mutant of Moved: the target is left as it was.
MovedNowhere(files, tmp, target) == [files EXCEPT ![tmp] = Absent]

\* shutil.move(tmp, target): the target has what the .tmp file had and the
\* .tmp file is gone.
Moved(files, tmp, target) ==
    [files EXCEPT ![target] = files[tmp], ![tmp] = Absent]

ScaleInit ==
    /\ WaitAtRest
    /\ EntryAtRest
    /\ RetryAtRest
    /\ KeepAtRest
    /\ GenAtRest
    /\ PairAtRest
    /\ InstAtRest
    /\ \E k \in 0..MaxRendered :
          scale \in [partitions : ListsOf(ScalePartition, LaterScalePartition, k),
                     autoscale : BOOLEAN,
                     azure_before : {Absent, OldFile},
                     gres_before : {Absent, OldFile}]
    /\ scale_pc = "start"
    /\ scale_error = "none"
    /\ scale_files = [NoFiles EXCEPT !.azure_conf = scale.azure_before,
                                     !.gres_conf = scale.gres_before]
    /\ systemctl_cmds = <<>>

\* What scale leaves alone when it raises.
ScaleRaises(error) ==
    /\ scale_pc' = "raised"
    /\ scale_error' = error
    /\ UNCHANGED <<scale_files, systemctl_cmds>>

\* Lines 448-461: the backup directory is made (os.makedirs raises when it
\* cannot) and the files that exist are copied into it.
ScaleBackup ==
    /\ scale_pc = "start"
    /\ \E ok \in BOOLEAN :
         IF ok
         THEN /\ scale_files' =
                   [scale_files EXCEPT
                      !.backup_azure = CopyIfExists(scale_files.azure_conf),
                      !.backup_gres = CopyIfExists(scale_files.gres_conf)]
              /\ scale_pc' = "azure"
              /\ UNCHANGED <<scale_error, systemctl_cmds>>
         ELSE ScaleRaises("OSError")
    /\ UNCHANGED scale
    /\ UNCHANGED exceptScale

\* Lines 463-470: fetch_partitions answers or raises; then azure.conf.tmp is
\* opened for writing and _partitions writes into it.
ScaleWriteAzure ==
    /\ scale_pc = "azure"
    /\ \E ok \in BOOLEAN :
         IF ok
         THEN /\ scale_files' =
                   [scale_files EXCEPT
                      !.azure_tmp =
                          File(AzureLinesFrom(scale.partitions, 1, scale.autoscale))]
              /\ scale_pc' = "move_azure"
              /\ UNCHANGED <<scale_error, systemctl_cmds>>
         ELSE ScaleRaises("FetchError")
    /\ UNCHANGED scale
    /\ UNCHANGED exceptScale

\* Line 474: shutil.move(azure_conf + ".tmp", azure_conf)
ScaleMoveAzure ==
    /\ scale_pc = "move_azure"
    /\ scale_files' = Moved(scale_files, "azure_tmp", "azure_conf")
    /\ scale_pc' = "future"
    /\ UNCHANGED <<scale, scale_error, systemctl_cmds>>
    /\ UNCHANGED exceptScale

\* Line 476: _update_future_states, which changes no file; it returns, or
\* raises what is_autoscale_enabled or node_mgr.get_nodes raise.
ScaleUpdateFutureStates ==
    /\ scale_pc = "future"
    /\ \E ok \in BOOLEAN :
         IF ok
         THEN /\ scale_pc' = "gres"
              /\ UNCHANGED <<scale_error, scale_files, systemctl_cmds>>
         ELSE ScaleRaises("FutureStatesError")
    /\ UNCHANGED scale
    /\ UNCHANGED exceptScale

\* Lines 478-479: gres.conf.tmp is opened for writing and _generate_gres_conf
\* writes into it; when it raises the .tmp file stays with what was written.
ScaleWriteGres ==
    /\ scale_pc = "gres"
    /\ \E generated \in {GresConfFrom(scale.partitions, 1)} :
         /\ scale_files' = [scale_files EXCEPT !.gres_tmp = File(generated.lines)]
         /\ scale_pc' = IF generated.raised THEN "raised" ELSE "move_gres"
         /\ scale_error' = IF generated.raised THEN "RuntimeError" ELSE scale_error
    /\ UNCHANGED <<scale, systemctl_cmds>>
    /\ UNCHANGED exceptScale

\* Line 480: shutil.move(gres_conf + ".tmp", gres_conf)
ScaleMoveGres ==
    /\ scale_pc = "move_gres"
    /\ scale_files' = Moved(scale_files, "gres_tmp", "gres_conf")
    /\ scale_pc' = "restart"
    /\ UNCHANGED <<scale, scale_error, systemctl_cmds>>
    /\ UNCHANGED exceptScale

\* Line 483: systemctl restart slurmctld, which answers or raises.
ScaleRestart ==
    /\ scale_pc = "restart"
    /\ systemctl_cmds' = Append(systemctl_cmds, "restart slurmctld")
    /\ \E ok \in BOOLEAN :
         /\ scale_pc' = IF ok THEN "returned" ELSE "raised"
         /\ scale_error' = IF ok THEN "none" ELSE "SubprocessError"
    /\ UNCHANGED <<scale, scale_files>>
    /\ UNCHANGED exceptScale

ScaleNext ==
    \/ ScaleBackup
    \/ ScaleWriteAzure
    \/ ScaleMoveAzure
    \/ ScaleUpdateFutureStates
    \/ ScaleWriteGres
    \/ ScaleMoveGres
    \/ ScaleRestart

ScaleSpec == ScaleInit /\ [][ScaleNext]_<<vars, otherVars>>

\* The newly generated content of the two files.
NewAzure == File(AzureLinesFrom(scale.partitions, 1, scale.autoscale))
NewGres == File(GresConfFrom(scale.partitions, 1).lines)

\* The target has just been given what its .tmp file held, and the .tmp file
\* is gone.
MovedOver(tmp, target) ==
    /\ scale_files[tmp].exists
    /\ scale_files'[target] = scale_files[tmp]
    /\ ~scale_files'[tmp].exists

\* C33: slurmctld is restarted only once azure.conf and gres.conf both hold
\* the newly generated content; a file that existed before the call and is
\* no longer what it was is in the backup directory as it was; when the GRES
\* generation raises, gres.conf is what it was before the call and no restart
\* is run; and every change of azure.conf or gres.conf is a move of its .tmp
\* file over it.
C33_ScaleReplacesThenRestarts ==
    /\ []( /\ systemctl_cmds # <<>> =>
                /\ scale_files.azure_conf = NewAzure
                /\ scale_files.gres_conf = NewGres
                /\ ~GresConfFrom(scale.partitions, 1).raised
           /\ (scale.azure_before.exists
                 /\ scale_files.azure_conf # scale.azure_before)
                => scale_files.backup_azure = scale.azure_before
           /\ (scale.gres_before.exists
                 /\ scale_files.gres_conf # scale.gres_before)
                => scale_files.backup_gres = scale.gres_before
           /\ scale_error = "RuntimeError" =>
                /\ scale_files.gres_conf = scale.gres_before
                /\ systemctl_cmds = <<>>
                /\ scale_pc = "raised" )
    /\ [][ /\ scale_files'.azure_conf # scale_files.azure_conf
                => MovedOver("azure_tmp", "azure_conf")
           /\ scale_files'.gres_conf # scale_files.gres_conf
                => MovedOver("gres_tmp", "gres_conf") ]_scaleVars

\* C33 witness: both files existed, both were replaced by generated content
\* that holds a GRES line, and slurmctld was restarted.
C33_Witness ==
    /\ scale_pc = "returned"
    /\ systemctl_cmds = <<"restart slurmctld">>
    /\ scale.azure_before = OldFile
    /\ scale.gres_before = OldFile
    /\ scale_files.backup_azure = OldFile
    /\ scale_files.backup_gres = OldFile
    /\ scale_files.azure_conf = NewAzure
    /\ scale_files.gres_conf = NewGres
    /\ \E l \in DOMAIN NewGres.lines : NewGres.lines[l].key = "Nodename"

\* C33 witness of the failure: the GRES generation raised at the second
\* partition, after azure.conf was replaced.
C33_RaisedWitness ==
    /\ scale_error = "RuntimeError"
    /\ Len(scale.partitions) = 2
    /\ scale.partitions[1].has_node_list
    /\ scale.gres_before = OldFile
    /\ scale_files.gres_conf = OldFile
    /\ scale_files.gres_tmp.exists
    /\ scale_files.azure_conf = NewAzure

(***************************************************************************)
(* The topology generator: _generate_topology.                             *)
(***************************************************************************)
\* Number of named placement groups.
MaxPg == 2

\* Placement-group ids: NonePg is None, the others are the names in
\* alphabetic order.
NonePg == 0
Pgs == 0..MaxPg

\* One item of a partition's node_list_by_pg: the group and its node list,
\* empty or holding the node <<p, pg>> of the partition at position p.
PgItems(p) ==
    UNION {{[pg |-> g, node_list |-> <<>>], [pg |-> g, node_list |-> << <<p, g>> >>]}
              : g \in Pgs}

\* node_list_by_pg.items() of the partition at position p: its groups are
\* distinct, in any order, and in the model at most two.
NodeListsByPg(p) ==
    {items \in UNION {[1..n -> PgItems(p)] : n \in 0..2} :
        \A i, j \in DOMAIN items : items[i].pg = items[j].pg => i = j}

\* The inputs of k partitions.
RECURSIVE TopoInputsOf(_)
TopoInputsOf(k) ==
    IF k = 0 THEN {<<>>}
    ELSE LET shorter == TopoInputsOf(k - 1)
             last == NodeListsByPg(k)
         IN  {Append(t, items) : t \in shorter, items \in last}

\* The position of pg among the keys of the dictionary d, 0 when it is no key.
KeyIndex(d, pg) ==
    IF \E i \in DOMAIN d : d[i].pg = pg
    THEN CHOOSE i \in DOMAIN d : d[i].pg = pg
    ELSE 0

\* if pg not in nodes_by_pg: nodes_by_pg[pg] = []; nodes_by_pg[pg].extend(node_list)
Extend(d, item) ==
    IF KeyIndex(d, item.pg) = 0
    THEN Append(d, [pg |-> item.pg, nodes |-> item.node_list])
    ELSE [d EXCEPT ![KeyIndex(d, item.pg)].nodes = @ \o item.node_list]

RECURSIVE ExtendAll(_, _, _)
ExtendAll(d, items, i) ==
    IF i > Len(items) THEN d
    ELSE ExtendAll(Extend(d, items[i]), items, i + 1)

\* The two nested loops that fill nodes_by_pg, a dictionary in insertion order.
RECURSIVE NodesByPg(_, _, _)
NodesByPg(d, partitions_, p) ==
    IF p > Len(partitions_) THEN d
    ELSE NodesByPg(ExtendAll(d, partitions_[p], 1), partitions_, p + 1)

\* key=lambda x: x if x is not None else "": None sorts as the empty string,
\* ahead of every name.
SortKey(pg) == IF pg = NonePg THEN 0 ELSE pg

\* sorted(...): a stable sort, by insertion of each entry after the entries
\* whose key is not greater.
RECURSIVE InsertByKey(_, _)
InsertByKey(s, e) ==
    IF s = <<>> THEN <<e>>
    ELSE IF SortKey(s[Len(s)].pg) <= SortKey(e.pg) THEN Append(s, e)
    ELSE Append(InsertByKey(SubSeq(s, 1, Len(s) - 1), e), s[Len(s)])

RECURSIVE SortedFrom(_, _, _)
SortedFrom(acc, d, i) ==
    IF i > Len(d) THEN acc
    ELSE SortedFrom(InsertByKey(acc, d[i]), d, i + 1)

\* Mutant of Sorted: the groups are written in dictionary order.
Unsorted(d) == d

Sorted(d) == SortedFrom(<<>>, d, 1)

\* pg or "htc"
SwitchName(pg) ==
    IF pg = NonePg THEN [name |-> "htc", id |-> 0] ELSE [name |-> "pg", id |-> pg]

\* sorted(nodes, key=slutil.get_sort_key_func(bool(pg))) puts the names in
\* slutil's order; what every order keeps is the names and how often each
\* occurs, and that is what the line holds here.
NodesExpr(nodes_) ==
    [n \in Range(nodes_) |-> Cardinality({i \in DOMAIN nodes_ : nodes_[i] = n})]

\* The SwitchName lines: one for each group, in sorted order, that has nodes.
RECURSIVE SwitchLines(_, _)
SwitchLines(d, i) ==
    IF i > Len(d) THEN <<>>
    ELSE IF d[i].nodes = <<>> THEN SwitchLines(d, i + 1)
    ELSE <<[SwitchName |-> SwitchName(d[i].pg), pg |-> d[i].pg,
            Nodes |-> NodesExpr(d[i].nodes)]>> \o SwitchLines(d, i + 1)

TopoInit ==
    /\ \E k \in 0..MaxRendered : topo \in TopoInputsOf(k)
    /\ topo_pc = "start"
    /\ topo_writer = <<>>
    /\ WaitAtRest
    /\ EntryAtRest
    /\ RetryAtRest
    /\ KeepAtRest
    /\ PartAtRest
    /\ GresAtRest
    /\ PrepAtRest
    /\ AutoAtRest
    /\ LaterAtRest

\* if not nodes_by_pg: raise CyclecloudSlurmError("No nodes found ...")
TopologyRaise ==
    /\ topo_pc = "start"
    /\ NodesByPg(<<>>, topo, 1) = <<>>
    /\ topo_pc' = "raised"
    /\ UNCHANGED <<topo, topo_writer>>
    /\ UNCHANGED exceptTopo

TopologyWrite ==
    /\ topo_pc = "start"
    /\ \E nodes_by_pg \in {NodesByPg(<<>>, topo, 1)} :
          /\ nodes_by_pg # <<>>
          /\ topo_writer' = SwitchLines(Sorted(nodes_by_pg), 1)
    /\ topo_pc' = "returned"
    /\ UNCHANGED topo
    /\ UNCHANGED exceptTopo

TopoNext == TopologyRaise \/ TopologyWrite

TopoSpec == TopoInit /\ [][TopoNext]_<<vars, otherVars>>

(***************************************************************************)
(* Claims about the topology generator.                                    *)
(***************************************************************************)
\* The nodes the partitions list under the group pg.
NodesIn(pg) ==
    UNION {UNION {Range(topo[p][i].node_list) :
                     i \in {j \in DOMAIN topo[p] : topo[p][j].pg = pg}}
              : p \in DOMAIN topo}

\* The groups the partitions list, with or without nodes.
GroupsFound == UNION {{topo[p][i].pg : i \in DOMAIN topo[p]} : p \in DOMAIN topo}

\* The lines written for the group pg.
SwitchLinesOf(pg) == {l \in DOMAIN topo_writer : topo_writer[l].pg = pg}

\* C25: the nodes of all partitions are merged by placement-group id; there
\* is one SwitchName line for each group that has a node and none for any
\* other, the lines are in ascending group order with the null group first
\* and named 'htc', every node is in exactly one line, the line of its group,
\* and the generation fails exactly when no group is found at all.
C25_Topology ==
    /\ topo_pc = "raised" => (GroupsFound = {} /\ topo_writer = <<>>)
    /\ topo_pc = "returned" =>
          /\ GroupsFound # {}
          /\ \A pg \in Pgs :
                Cardinality(SwitchLinesOf(pg)) = (IF NodesIn(pg) # {} THEN 1 ELSE 0)
          /\ \A l \in DOMAIN topo_writer :
                /\ DOMAIN topo_writer[l].Nodes = NodesIn(topo_writer[l].pg)
                /\ \A n \in DOMAIN topo_writer[l].Nodes : topo_writer[l].Nodes[n] = 1
                /\ (topo_writer[l].SwitchName.name = "htc") <=> (topo_writer[l].pg = NonePg)
                /\ topo_writer[l].pg # NonePg
                      => topo_writer[l].SwitchName = [name |-> "pg", id |-> topo_writer[l].pg]
                /\ topo_writer[l].pg = NonePg => l = 1
          /\ \A l, m \in DOMAIN topo_writer :
                l < m => topo_writer[l].pg < topo_writer[m].pg
          /\ \A pg \in Pgs : \A n \in NodesIn(pg) :
                Cardinality({l \in DOMAIN topo_writer :
                                n \in DOMAIN topo_writer[l].Nodes}) = 1

\* Two partitions share group 2, listed ahead of the null group and group 1.
C25_Witness ==
    /\ topo_pc = "returned"
    /\ Len(topo) = 2
    /\ Len(topo[1]) = 2 /\ topo[1][1].pg = 2 /\ topo[1][2].pg = NonePg
    /\ Len(topo[2]) = 2 /\ topo[2][1].pg = 2 /\ topo[2][2].pg = 1
    /\ Len(topo_writer) = 3
    /\ topo_writer[1].SwitchName.name = "htc"
    /\ topo_writer[3].pg = 2
    /\ Cardinality(DOMAIN topo_writer[3].Nodes) = 2

(***************************************************************************)
(* SlurmDriver.preprocess_node_mgr: the placement-group buffer of every    *)
(* bucket's nodearray.                                                     *)
(***************************************************************************)
Nodearrays == {"hpc", "htc"}

\* config["nodearrays"][name], by what it holds of the buffer: no entry for
\* the nodearray, an entry without generated_placement_group_buffer, or the
\* buffer's value.
NoEntry == 0 - 2
NoBuffer == 0 - 1
BufferValues == {NoEntry, NoBuffer, 0, 3}

\* The config dictionaries a call can be handed.
Configs ==
    {EmptyConfig} \cup
    {[has_nodearrays |-> TRUE, nodearrays |-> n] : n \in [Nodearrays -> BufferValues]}

\* b.software_configuration.get("slurm", {}).get("hpc"): absent, a boolean
\* or a string.
HpcValues == {"<None>", "<True>", "<False>", "true", "false"}

\* str(value or "false").lower()
HpcStr(value) ==
    IF value \in {"<None>", "<False>"} THEN "false"
    ELSE IF value = "<True>" THEN "true" ELSE value

IsHpc(b) == HpcStr(b.hpc) = "true"

Bucket == [nodearray : Nodearrays, hpc : HpcValues,
           max_count : 1..MaxVmCount,
           max_placement_group_size : 1..MaxScalesetSize]

\* The buckets after the first one of node_mgr.get_buckets(); the loop body
\* treats every bucket alike, so the sizes vary on the first bucket only.
LaterBucket ==
    {b \in Bucket : /\ b.max_count = 3
                    /\ b.max_placement_group_size = 2
                    /\ b.hpc \in {"<True>", "false"}}

\* config["nodearrays"][name]'s buffer, NoEntry without the dictionaries.
BufferOf(c, name) == IF c.has_nodearrays THEN c.nodearrays[name] ELSE NoEntry

\* if "nodearrays" not in config: config["nodearrays"] = {}
WithNodearrays(c) ==
    IF c.has_nodearrays THEN c
    ELSE [has_nodearrays |-> TRUE, nodearrays |-> [n \in Nodearrays |-> NoEntry]]

\* if b.nodearray not in config["nodearrays"]: config["nodearrays"][b.nodearray] = {}
WithEntry(c, name) ==
    IF c.nodearrays[name] = NoEntry
    THEN [c EXCEPT !.nodearrays[name] = NoBuffer] ELSE c

\* config["nodearrays"][b.nodearray]["generated_placement_group_buffer"] = value
SetBuffer(c, name, value) == [c EXCEPT !.nodearrays[name] = value]

\* One pass of the loop body over bucket b, lines 135-155.
PreprocessBucketConfig(c, b) ==
    LET zeroed == SetBuffer(WithEntry(WithNodearrays(c), b.nodearray), b.nodearray, 0)
    IN  IF zeroed.nodearrays[b.nodearray] \notin {NoEntry, NoBuffer}
        THEN \* continue
             zeroed
        ELSE SetBuffer(zeroed, b.nodearray,
                       IF IsHpc(b)
                       THEN CeilDiv(b.max_count, b.max_placement_group_size)
                       ELSE 0)

PrepInit ==
    /\ \E k \in 0..MaxRendered :
          prep \in [buckets : ListsOf(Bucket, LaterBucket, k), config : Configs]
    /\ config = prep.config
    /\ prep_pc = "start"
    /\ bucket_index = 0
    /\ default_resources = <<>>
    /\ WaitAtRest
    /\ EntryAtRest
    /\ RetryAtRest
    /\ KeepAtRest
    /\ PartAtRest
    /\ GresAtRest
    /\ TopoAtRest
    /\ AutoAtRest
    /\ LaterAtRest

\* node_mgr.add_default_resource(selection={}, resource_name="slurm_memory", ...)
PreprocessStart ==
    /\ prep_pc = "start"
    /\ default_resources' = Append(default_resources, "slurm_memory")
    /\ prep_pc' = "buckets"
    /\ UNCHANGED <<prep, config, bucket_index>>
    /\ UNCHANGED exceptPrep

\* One iteration of `for b in node_mgr.get_buckets()`.
PreprocessBucket ==
    /\ prep_pc = "buckets"
    /\ bucket_index < Len(prep.buckets)
    /\ config' = PreprocessBucketConfig(config, prep.buckets[bucket_index + 1])
    /\ bucket_index' = bucket_index + 1
    /\ UNCHANGED <<prep, prep_pc, default_resources>>
    /\ UNCHANGED exceptPrep

PreprocessReturn ==
    /\ prep_pc = "buckets"
    /\ bucket_index = Len(prep.buckets)
    /\ prep_pc' = "returned"
    /\ UNCHANGED <<prep, config, bucket_index, default_resources>>
    /\ UNCHANGED exceptPrep

PrepNext == PreprocessStart \/ PreprocessBucket \/ PreprocessReturn

PrepSpec == PrepInit /\ [][PrepNext]_<<vars, otherVars>>

(***************************************************************************)
(* Claims about preprocess_node_mgr.                                       *)
(***************************************************************************)
\* The buffer the claim gives bucket b: the number of placement groups of
\* max_placement_group_size that hold max_count for an HPC bucket, else 0.
ClaimedBuffer(b) ==
    IF b.hpc \in {"<True>", "true"}
    THEN CHOOSE n \in 0..MaxVmCount + 1 :
            /\ n * b.max_placement_group_size >= b.max_count
            /\ (n - 1) * b.max_placement_group_size < b.max_count
    ELSE 0

\* The nodearray had a buffer in the config the call was handed.
HeldBuffer(name) == BufferOf(prep.config, name) \notin {NoEntry, NoBuffer}

\* C26: once the bucket at position i is processed, and its nodearray had no
\* buffer before the call and is the nodearray of no other bucket, the
\* nodearray's generated_placement_group_buffer is ceil(max_count /
\* max_placement_group_size) when the bucket is flagged HPC and 0 otherwise.
C26_BufferComputed ==
    \A i \in 1..bucket_index :
       (/\ ~HeldBuffer(prep.buckets[i].nodearray)
        /\ \A j \in DOMAIN prep.buckets :
              prep.buckets[j].nodearray = prep.buckets[i].nodearray => j = i)
          => BufferOf(config, prep.buckets[i].nodearray) = ClaimedBuffer(prep.buckets[i])

\* C29: a generated_placement_group_buffer the config held before the call
\* is its value throughout the call.
C29_HeldBufferKept ==
    \A name \in Nodearrays :
       HeldBuffer(name) => BufferOf(config, name) = BufferOf(prep.config, name)

(***************************************************************************)
(* Claims about the scheduler's NodeAddr under _wait_for_resume.           *)
(***************************************************************************)
\* A NodeAddr the scheduler can hold: the node's own name or an address.
OwnName(n) == [kind |-> "name", value |-> n]
IpAddr(ip) == [kind |-> "ip", value |-> ip]

\* The scheduler's NodeAddr of n after the commands run so far, `recorded`
\* being what it held when the request started: the only command that names
\* NodeAddr is the final step's, `State=down` leaves it alone, and a command
\* that raised changed nothing.
SchedulerNodeAddr(n, recorded) ==
    IF n \in Range(addr_cmds) /\ addr_raised # n
    THEN IpAddr(by_name[n].private_ip)
    ELSE recorded

\* C27: after each check, the NodeAddr of every requested node that has a
\* private IP in the latest inventory is that IP, also when the node is not
\* Ready yet, and the NodeAddr of a requested node without a private IP is
\* still its own name.
C27_AddrFollowsInventory ==
    Polled =>
       \A n \in Requested :
          /\ (Found(n) /\ by_name[n].private_ip # 0)
                => SchedulerNodeAddr(n, OwnName(n)) = IpAddr(by_name[n].private_ip)
          /\ (Found(n) /\ by_name[n].private_ip = 0)
                => SchedulerNodeAddr(n, OwnName(n)) = OwnName(n)

\* C28: after a check that observed a requested node Failed, the NodeAddr of
\* that node is its own name, whatever address the scheduler had recorded
\* for it.
C28_FailedAddrReset ==
    Polled =>
       \A n \in Requested :
          IsFailed(n) =>
             \A ip \in PrivateIps \ {0} :
                SchedulerNodeAddr(n, IpAddr(ip)) = OwnName(n)

(***************************************************************************)
(* is_autoscale_enabled and its module global _IS_AUTOSCALE_ENABLED.       *)
(***************************************************************************)
\* Number of calls made in one process, and of lines a configuration has.
MaxCalls == 3
MaxLines == 2

\* The lines of a configuration, by what the loop reads of them: a line that
\* does not start with "SuspendTime " or "SuspendTime=", or the value of one
\* that does.
ConfigLines == {"other", "NONE", "-1", "300", "junk"}
LineLists == UNION {[1..k -> ConfigLines] : k \in 0..MaxLines}

\* What one read of the configuration gets: the lines `scontrol show config`
\* prints, the lines of /sched/slurm.conf when scontrol fails, or nothing
\* when both fail.
Reads == [source : {"scontrol", "slurm.conf"}, lines : LineLists]
            \cup {[source |-> "none", lines |-> <<>>]}

\* The body of `for line in lines` on the global's value.
AfterLine(value, line) ==
    IF line = "other" THEN value
    ELSE IF line = "junk" THEN value            \* int() raises: except ... pass
    ELSE IF line = "NONE" \/ line = "-1" THEN "False"
    ELSE "True"

RECURSIVE AfterLines(_, _, _)
AfterLines(value, lines, i) ==
    IF i > Len(lines) THEN value
    ELSE AfterLines(AfterLine(value, lines[i]), lines, i + 1)

\* The global after a read: True when neither source could be read.
AfterRead(value, read) ==
    IF read.source = "none" THEN "True" ELSE AfterLines(value, read.lines, 1)

AutoInit ==
    /\ IS_AUTOSCALE_ENABLED = "None"
    /\ autoscale_queries = <<>>
    /\ autoscale_returns = <<>>
    /\ WaitAtRest
    /\ EntryAtRest
    /\ RetryAtRest
    /\ KeepAtRest
    /\ PartAtRest
    /\ GresAtRest
    /\ TopoAtRest
    /\ PrepAtRest
    /\ LaterAtRest

\* A call that finds the global set: if _IS_AUTOSCALE_ENABLED is not None: return it
AutoscaleCached ==
    /\ Len(autoscale_returns) < MaxCalls
    /\ IS_AUTOSCALE_ENABLED # "None"
    /\ autoscale_returns' = Append(autoscale_returns, IS_AUTOSCALE_ENABLED)
    /\ UNCHANGED <<IS_AUTOSCALE_ENABLED, autoscale_queries>>
    /\ UNCHANGED exceptAuto

\* A call that finds the global None: it reads the configuration.
AutoscaleQuery ==
    /\ Len(autoscale_returns) < MaxCalls
    /\ IS_AUTOSCALE_ENABLED = "None"
    /\ \E read \in Reads :
          /\ autoscale_queries' = Append(autoscale_queries, read)
          /\ IS_AUTOSCALE_ENABLED' = AfterRead(IS_AUTOSCALE_ENABLED, read)
          /\ autoscale_returns' = Append(autoscale_returns,
                                         AfterRead(IS_AUTOSCALE_ENABLED, read))
    /\ UNCHANGED exceptAuto

AutoNext == AutoscaleCached \/ AutoscaleQuery

AutoSpec == AutoInit /\ [][AutoNext]_<<vars, otherVars>>

(***************************************************************************)
(* Claims about is_autoscale_enabled.                                      *)
(***************************************************************************)
\* C30: the flag is computed once: only the first call reads the scheduler's
\* configuration and every later call returns what the first returned, also
\* when the configuration read has no SuspendTime line.
C30_ComputedOnce ==
    /\ Len(autoscale_queries) <= 1
    /\ \A i \in DOMAIN autoscale_returns : autoscale_returns[i] = autoscale_returns[1]

(***************************************************************************)
(* An install run: install.py, main (lines 501-552) and the constructor of *)
(* InstallSettings (lines 13-86). The bootstrap config is a nested         *)
(* dictionary, modelled as the set of the key paths it holds; cluster_name, *)
(* node_name, hostname and azure.metadata.compute.vmSize are always there. *)
(* Of the file system the model keeps the paths under {config_dir}, the    *)
(* directory shared by the nodes of the cluster; "." is {config_dir}.      *)
(***************************************************************************)
ConfigKeys ==
    {"slurm", "slurm.accounting", "slurm.accounting.enabled",
     "slurm.accounting.user", "slurm.accounting.password", "slurm.user",
     "slurm.version", "slurm.is_primary_scheduler",
     "slurm.secondary_scheduler_name", "munge", "munge.user"}

\* The dictionary a key path is a key of.
ParentKey(key) ==
    CASE key \in {"slurm", "munge"} -> ""
      [] key = "munge.user" -> "munge"
      [] key \in {"slurm.accounting.enabled", "slurm.accounting.user",
                  "slurm.accounting.password"} -> "slurm.accounting"
      [] OTHER -> "slurm"

\* The bootstrap configs: a key is held by a dictionary that is there.
BootstrapKeys ==
    {keys \in SUBSET ConfigKeys :
        \A k \in keys : ParentKey(k) = "" \/ ParentKey(k) \in keys}

Modes == {"scheduler", "execute", "login"}

\* What can exist under {config_dir} when a run starts: nothing, the
\* directory, what the primary scheduler has made by the end of munge_key,
\* and what it has made by the end of its run.
PrimaryPaths ==
    {".", "munge.key", "munge", "slurm.conf", "cgroup.conf", "azure.conf",
     "keep_alive.conf", "accounting.conf"}

Before == {{}, {"."}, {".", "munge.key"}, PrimaryPaths}

\* Lines 17-30: the sections the constructor adds when they are missing.
Defaulted(keys) ==
    LET slurm == IF "slurm" \notin keys THEN keys \cup {"slurm"} ELSE keys
        acct == IF "slurm.accounting" \notin slurm
                THEN slurm \cup {"slurm.acccounting"} ELSE slurm
        user == IF "slurm.user" \notin acct THEN acct \cup {"slurm.user"} ELSE acct
        munge == IF "munge" \notin user THEN user \cup {"munge"} ELSE user
    IN IF "munge.user" \notin munge THEN munge \cup {"munge.user"} ELSE munge

\* dict.get(key) of a string value: None when the key is missing.
GetStr(keys, key) == IF key \in keys THEN key ELSE "<None>"

\* InstallSettings.__init__: the KeyError of the first subscript of a missing
\* key (lines 38 and 51 subscript; the other reads use .get), or the settings.
InstallSettingsOf(b) ==
    LET keys == Defaulted(b.keys) IN
    IF "slurm.version" \notin keys
    THEN [error |-> "KeyError: version", settings |-> NoSettings]
    ELSE IF "slurm.accounting" \notin keys
    THEN [error |-> "KeyError: accounting", settings |-> NoSettings]
    ELSE [error |-> "none",
          settings |->
            [mode |-> b.mode,
             is_primary_scheduler |->
                IF "slurm.is_primary_scheduler" \in keys
                THEN b.is_primary ELSE b.mode = "scheduler",
             acct_enabled |->
                IF "slurm.accounting.enabled" \in keys THEN b.enabled ELSE FALSE,
             acct_user |-> GetStr(keys, "slurm.accounting.user"),
             acct_pass |-> GetStr(keys, "slurm.accounting.password"),
             acct_url |-> GetStr(keys, "slurm.accounting.url"),
             secondary_scheduler_name |->
                GetStr(keys, "slurm.secondary_scheduler_name")]]

InstInit ==
    /\ WaitAtRest
    /\ EntryAtRest
    /\ RetryAtRest
    /\ KeepAtRest
    /\ GenAtRest
    /\ PairAtRest
    /\ ScaleAtRest
    /\ bootstrap \in [keys : BootstrapKeys, enabled : BOOLEAN,
                       is_primary : BOOLEAN, mode : Modes, before : Before]
    \* a value is told apart only when its key is there
    /\ "slurm.accounting.enabled" \notin bootstrap.keys => ~bootstrap.enabled
    /\ "slurm.is_primary_scheduler" \notin bootstrap.keys => ~bootstrap.is_primary
    /\ install_pc = "settings"
    /\ install_error = "none"
    /\ settings = NoSettings
    /\ config_dir = bootstrap.before
    /\ created = {}

\* The run raises and changes nothing more.
InstallRaises(error) ==
    /\ install_pc' = "raised"
    /\ install_error' = error
    /\ UNCHANGED <<config_dir, created>>

\* ilib.directory, ilib.file and ilib.template of paths under {config_dir}:
\* the paths exist afterwards, and those that did not were created.
Creates(paths, next) ==
    /\ config_dir' = config_dir \cup paths
    /\ created' = created \cup (paths \ config_dir)
    /\ install_pc' = next
    /\ UNCHANGED install_error

\* Nothing under {config_dir} is touched.
Skips(next) ==
    /\ install_pc' = next
    /\ UNCHANGED <<install_error, config_dir, created>>

\* Line 521: settings = InstallSettings(config, args.platform, args.mode)
InstallSettingsInit ==
    /\ install_pc = "settings"
    /\ \E made \in {InstallSettingsOf(bootstrap)} :
         /\ settings' = made.settings
         /\ IF made.error = "none"
            THEN Skips("config_dir")
            ELSE InstallRaises(made.error)
    /\ UNCHANGED bootstrap
    /\ UNCHANGED exceptInst

\* Lines 524-527: setup_config_dir, then setup_users.
SetupConfigDir ==
    /\ install_pc = "config_dir"
    /\ IF settings.is_primary_scheduler
       THEN Creates({"."}, "munge_key")
       ELSE Skips("munge_key")
    /\ UNCHANGED <<bootstrap, settings>>
    /\ UNCHANGED exceptInst

\* Line 530, munge_key: a scheduler, primary or not, writes munge.key when it
\* is not there (which raises without the directory); then the key is copied
\* to /etc/munge, which raises when there is no key.
MungeKey ==
    /\ install_pc = "munge_key"
    /\ IF settings.mode = "scheduler" /\ "munge.key" \notin config_dir
       THEN IF "." \in config_dir
            THEN Creates({"munge.key"}, "installer")
            ELSE InstallRaises("FileNotFoundError")
       ELSE IF "munge.key" \in config_dir
            THEN Skips("installer")
            ELSE InstallRaises("FileNotFoundError")
    /\ UNCHANGED <<bootstrap, settings>>
    /\ UNCHANGED exceptInst

\* Line 533, run_installer: the package installer answers or raises.
RunInstaller ==
    /\ install_pc = "installer"
    /\ \E ok \in BOOLEAN :
         IF ok THEN Skips("permissions") ELSE InstallRaises("CalledProcessError")
    /\ UNCHANGED <<bootstrap, settings>>
    /\ UNCHANGED exceptInst

\* Line 536, fix_permissions: in every mode, ilib.directory of
\* {config_dir}/munge (line 157).
FixPermissions ==
    /\ install_pc = "permissions"
    /\ Creates({"munge"}, "complete")
    /\ UNCHANGED <<bootstrap, settings>>
    /\ UNCHANGED exceptInst

\* What _complete_install_primary makes under {config_dir} (lines 316-376):
\* the state save location when there is a secondary scheduler, slurm.conf,
\* cgroup.conf, and azure.conf and keep_alive.conf when they are missing.
CompletePrimaryPaths(s) ==
    {"slurm.conf", "cgroup.conf", "azure.conf", "keep_alive.conf"}
       \cup (IF s.secondary_scheduler_name # "<None>"
             THEN {"spool/slurmctld"} ELSE {})

\* Line 538, complete_install: _complete_install_primary on the primary
\* scheduler, then _complete_install_all, which links into /etc/slurm only.
CompleteInstall ==
    /\ install_pc = "complete"
    /\ IF settings.mode = "scheduler" /\ settings.is_primary_scheduler
       THEN Creates(CompletePrimaryPaths(settings), "accounting")
       ELSE Skips("accounting")
    /\ UNCHANGED <<bootstrap, settings>>
    /\ UNCHANGED exceptInst

\* What _accounting_primary makes under {config_dir} (lines 215-272).
AccountingPrimaryPaths(s) ==
    IF ~s.acct_enabled
    THEN {"accounting.conf"}
    ELSE {"accounting.conf", "AzureCA.pem", "slurmdbd.conf"}

\* Lines 540-552: accounting on a scheduler (_accounting_primary on the
\* primary, then the links of _accounting_all), the cron entry,
\* set_hostname and setup_slurmd.
Accounting ==
    /\ install_pc = "accounting"
    /\ IF settings.mode = "scheduler" /\ settings.is_primary_scheduler
       THEN Creates(AccountingPrimaryPaths(settings), "returned")
       ELSE Skips("returned")
    /\ UNCHANGED <<bootstrap, settings>>
    /\ UNCHANGED exceptInst

InstNext ==
    \/ InstallSettingsInit
    \/ SetupConfigDir
    \/ MungeKey
    \/ RunInstaller
    \/ FixPermissions
    \/ CompleteInstall
    \/ Accounting

InstSpec == InstInit /\ [][InstNext]_<<vars, otherVars>>

\* The run is not that of the primary scheduler: its mode is execute or
\* login, or it is a scheduler whose is_primary_scheduler is false.
NotPrimaryScheduler ==
    \/ bootstrap.mode \in {"execute", "login"}
    \/ bootstrap.mode = "scheduler" /\ ~settings.is_primary_scheduler

\* C31: a run that is not the primary scheduler's creates nothing under
\* {config_dir}.
C31_OnlyPrimaryCreates ==
    (install_pc # "settings" /\ NotPrimaryScheduler) => created = {}

\* C31, the failing runs: an execute node that finds the key of the primary
\* scheduler has made {config_dir}/munge, and a scheduler that is not the
\* primary has written munge.key.
C31_ExecuteCreatesMungeDir ==
    /\ bootstrap.mode = "execute"
    /\ ~settings.is_primary_scheduler
    /\ bootstrap.before = {".", "munge.key"}
    /\ install_pc = "returned"
    /\ created = {"munge"}

C31_SecondaryCreatesMungeKey ==
    /\ bootstrap.mode = "scheduler"
    /\ install_pc # "settings"
    /\ ~settings.is_primary_scheduler
    /\ "munge.key" \in created

\* C36: the constructor given a config without a slurm.accounting section
\* (and with the keys it subscripts elsewhere) succeeds, with accounting
\* disabled and no accounting user, password or url.
C36_DefaultsWithoutAccounting ==
    ( /\ install_pc # "settings"
      /\ "slurm.accounting" \notin bootstrap.keys
      /\ "slurm.version" \in bootstrap.keys )
    => /\ install_error # "KeyError: accounting"
       /\ settings.mode = bootstrap.mode
       /\ ~settings.acct_enabled
       /\ settings.acct_user = "<None>"
       /\ settings.acct_pass = "<None>"
       /\ settings.acct_url = "<None>"

\* C36, the failing run: the config has slurm.version and no
\* slurm.accounting, and the constructor raised KeyError.
C36_KeyErrorReached ==
    /\ "slurm.version" \in bootstrap.keys
    /\ "slurm.accounting" \notin bootstrap.keys
    /\ install_pc = "raised"
    /\ install_error = "KeyError: accounting"

\* With a slurm.accounting section, even an empty one, the constructor
\* succeeds and accounting is disabled unless the section enables it.
C36_WithSectionConstructed ==
    ( /\ install_pc # "settings"
      /\ "slurm.accounting" \in bootstrap.keys
      /\ "slurm.version" \in bootstrap.keys )
    => /\ install_error # "KeyError: accounting"
       /\ settings.mode = bootstrap.mode
       /\ settings.acct_enabled =
             ("slurm.accounting.enabled" \in bootstrap.keys /\ bootstrap.enabled)

====
